---- MODULE Spec2Model ----
(***************************************************************************)
(* A model of the blog platform: the three domain entities (BlogPost,      *)
(* Comment, User) with their validate-or-rollback mutators, the            *)
(* SQLAlchemy-backed repositories (tables of rows), and the use cases that *)
(* orchestrate them (blog posts, comments, authentication).                *)
(*                                                                         *)
(* Strings are sequences of one-character strings, so that strip(),        *)
(* lower(), len() and the regular expressions are computed, not assumed.   *)
(* Timestamps are readings of one clock, now.                              *)
(***************************************************************************)
EXTENDS Integers, Sequences, FiniteSets, TLC

VARIABLES
    now,        \* datetime.utcnow(): the clock
    posts,      \* table blog_posts: id -> row
    comments,   \* table comments: rows in insertion order
    users,      \* table users: id -> row
    last,       \* the last completed call: its operation, inputs and outcome
    calls,      \* the repository calls the last use-case call issued, in order
    tokens,     \* the reset tokens issued so far
    ent,        \* an entity held in memory (the entity-level specification)
    prev        \* that entity as it was before the last mutator call

vars == <<now, posts, comments, users, last, calls, tokens, ent, prev>>

(***************************************************************************)
(* Bounds of the model.                                                    *)
(***************************************************************************)
MaxTime == 1
MaxIds == 2

(***************************************************************************)
(* Strings.                                                                *)
(***************************************************************************)
Rep(c, n) == [i \in 1..n |-> c]

\* Python's None, and a value that is not a str (an int, say).
NoneVal == <<"None">>
NotAStr == <<"NotAStr">>

IsStr(s) == s \notin {NoneVal, NotAStr}

Whitespace == {" ", "\t", "\n"}

UpperSeq ==
    <<"A", "B", "C", "D", "E", "F", "G", "H", "I", "J", "K", "L", "M",
      "N", "O", "P", "Q", "R", "S", "T", "U", "V", "W", "X", "Y", "Z">>

LowerSeq ==
    <<"a", "b", "c", "d", "e", "f", "g", "h", "i", "j", "k", "l", "m",
      "n", "o", "p", "q", "r", "s", "t", "u", "v", "w", "x", "y", "z">>

UpperChars == {UpperSeq[i] : i \in DOMAIN UpperSeq}
LowerChars == {LowerSeq[i] : i \in DOMAIN LowerSeq}
DigitChars == {"0", "1", "2", "3", "4", "5", "6", "7", "8", "9"}
LetterChars == UpperChars \cup LowerChars

RECURSIVE LStrip(_)
LStrip(s) ==
    IF s # <<>> /\ Head(s) \in Whitespace THEN LStrip(Tail(s)) ELSE s

RECURSIVE RStrip(_)
RStrip(s) ==
    IF s # <<>> /\ s[Len(s)] \in Whitespace
    THEN RStrip(SubSeq(s, 1, Len(s) - 1))
    ELSE s

\* str.strip()
Strip(s) == RStrip(LStrip(s))

LowerOf(c) ==
    IF c \in UpperChars
    THEN LowerSeq[CHOOSE i \in DOMAIN UpperSeq : UpperSeq[i] = c]
    ELSE c

\* str.lower()
ToLower(s) == [i \in 1..Len(s) |-> LowerOf(s[i])]

AllIn(s, class) == \A i \in 1..Len(s) : s[i] \in class

(***************************************************************************)
(* BlogPost entity (domain/entities/blog_post.py).                         *)
(***************************************************************************)
MaxTitleLen == 200

\* _validate_title: TRUE when no ValueError is raised
BlogPost_validate_title(p) ==
    /\ IsStr(p.title)
    /\ Strip(p.title) # <<>>
    /\ Len(p.title) <= MaxTitleLen

BlogPost_validate_content(p) ==
    /\ IsStr(p.content)
    /\ Strip(p.content) # <<>>

\* BlogPost(title, content) with the generated id; created_at and updated_at
\* are two reads of the clock, t and then t2; out is "ok" or "ValueError"
\* (__post_init__ raised: no entity exists)
BlogPost_new_UpdatedFirst(id, title, content, t, t2) ==
    LET p == [id |-> id, title |-> title, content |-> content,
              created_at |-> t2, updated_at |-> t, comment_ids |-> <<>>]
    IN  IF BlogPost_validate_title(p) /\ BlogPost_validate_content(p)
        THEN [out |-> "ok", e |-> p]
        ELSE [out |-> "ValueError", e |-> p]

BlogPost_new(id, title, content, t, t2) ==
    LET p == [id |-> id, title |-> title, content |-> content,
              created_at |-> t, updated_at |-> t2, comment_ids |-> <<>>]
    IN  IF BlogPost_validate_title(p) /\ BlogPost_validate_content(p)
        THEN [out |-> "ok", e |-> p]
        ELSE [out |-> "ValueError", e |-> p]

BlogPost_update_title(p, new_title, t) ==
    LET p1 == [p EXCEPT !.title = new_title]
    IN  IF BlogPost_validate_title(p1)
        THEN [out |-> "ok", e |-> [p1 EXCEPT !.updated_at = t]]
        ELSE [out |-> "ValueError", e |-> [p1 EXCEPT !.title = p.title]]

BlogPost_update_content(p, new_content, t) ==
    LET p1 == [p EXCEPT !.content = new_content]
    IN  IF BlogPost_validate_content(p1)
        THEN [out |-> "ok", e |-> [p1 EXCEPT !.updated_at = t]]
        ELSE [out |-> "ValueError", e |-> [p1 EXCEPT !.content = p.content]]

InSeq(x, s) == \E i \in 1..Len(s) : s[i] = x

\* list.remove(x): removes the first occurrence
RemoveFirst(s, x) ==
    LET i == CHOOSE k \in 1..Len(s) : s[k] = x /\ \A j \in 1..(k - 1) : s[j] # x
    IN  SubSeq(s, 1, i - 1) \o SubSeq(s, i + 1, Len(s))

\* Identifiers (uuid4 values) are the positive numbers; NotAUUID is a value that
\* is not a UUID (None, a str).
NotAUUID == 0

\* isinstance(comment_id, UUID)
IsUUID(x) == x # NotAUUID

BlogPost_add_comment_id(p, comment_id, t) ==
    IF ~IsUUID(comment_id) THEN [out |-> "ValueError", e |-> p]
    ELSE IF InSeq(comment_id, p.comment_ids) THEN [out |-> "ValueError", e |-> p]
    ELSE [out |-> "ok",
          e |-> [p EXCEPT !.comment_ids = Append(@, comment_id), !.updated_at = t]]

BlogPost_remove_comment_id(p, comment_id, t) ==
    IF ~InSeq(comment_id, p.comment_ids) THEN [out |-> "ValueError", e |-> p]
    ELSE [out |-> "ok",
          e |-> [p EXCEPT !.comment_ids = RemoveFirst(@, comment_id),
                          !.updated_at = t]]

(***************************************************************************)
(* Comment entity (domain/entities/comment.py).                            *)
(***************************************************************************)
MaxCommentLen == 1000
MaxAuthorNameLen == 100
MaxAuthorEmailLen == 255

Comment_validate_content(c) ==
    /\ IsStr(c.content)
    /\ Strip(c.content) # <<>>
    /\ Len(c.content) <= MaxCommentLen

Comment_validate_blog_post_id(c) == IsUUID(c.blog_post_id)

Comment_validate_author_name(c) ==
    /\ IsStr(c.author_name)
    /\ Len(c.author_name) <= MaxAuthorNameLen

Comment_validate_author_email(c) ==
    /\ IsStr(c.author_email)
    /\ Len(c.author_email) <= MaxAuthorEmailLen
    /\ (c.author_email # <<>> => InSeq("@", c.author_email))

Anonymous == <<"A", "n", "o", "n", "y", "m", "o", "u", "s">>

\* Comment(content, blog_post_id, author_name, author_email), approved by
\* default; created_at and updated_at are two reads of the clock, t then t2
Comment_new(id, content, blog_post_id, author_name, author_email, t, t2) ==
    LET c == [id |-> id, content |-> content, blog_post_id |-> blog_post_id,
              author_name |-> author_name, author_email |-> author_email,
              created_at |-> t, updated_at |-> t2, is_approved |-> TRUE]
    IN  IF /\ Comment_validate_content(c)
           /\ Comment_validate_blog_post_id(c)
           /\ Comment_validate_author_name(c)
           /\ Comment_validate_author_email(c)
        THEN [out |-> "ok", e |-> c]
        ELSE [out |-> "ValueError", e |-> c]

Comment_update_content(c, new_content, t) ==
    LET c1 == [c EXCEPT !.content = new_content]
    IN  IF Comment_validate_content(c1)
        THEN [out |-> "ok", e |-> [c1 EXCEPT !.updated_at = t]]
        ELSE [out |-> "ValueError", e |-> [c1 EXCEPT !.content = c.content]]

\* update_author_info whose except branch restores the email only
Comment_update_author_info_EmailOnlyRollback(c, name, email, t) ==
    LET c1 == IF name # NoneVal THEN [c EXCEPT !.author_name = name] ELSE c
        nameOk == name # NoneVal => Comment_validate_author_name(c1)
        c2 == IF nameOk /\ email # NoneVal
              THEN [c1 EXCEPT !.author_email = email] ELSE c1
        emailOk == email # NoneVal => Comment_validate_author_email(c2)
    IN  IF nameOk /\ emailOk
        THEN [out |-> "ok", e |-> [c2 EXCEPT !.updated_at = t]]
        ELSE [out |-> "ValueError",
              e |-> [c2 EXCEPT !.author_email = c.author_email]]

\* update_author_info(name, email): NoneVal for an argument that is not given.
\* The name is assigned and validated first, then the email; the except
\* branch restores both.
Comment_update_author_info(c, name, email, t) ==
    LET c1 == IF name # NoneVal THEN [c EXCEPT !.author_name = name] ELSE c
        nameOk == name # NoneVal => Comment_validate_author_name(c1)
        c2 == IF nameOk /\ email # NoneVal
              THEN [c1 EXCEPT !.author_email = email] ELSE c1
        emailOk == email # NoneVal => Comment_validate_author_email(c2)
    IN  IF nameOk /\ emailOk
        THEN [out |-> "ok", e |-> [c2 EXCEPT !.updated_at = t]]
        ELSE [out |-> "ValueError",
              e |-> [c2 EXCEPT !.author_name = c.author_name,
                               !.author_email = c.author_email]]

Comment_approve(c, t) ==
    IF ~c.is_approved
    THEN [c EXCEPT !.is_approved = TRUE, !.updated_at = t]
    ELSE c

Comment_reject(c, t) ==
    IF c.is_approved
    THEN [c EXCEPT !.is_approved = FALSE, !.updated_at = t]
    ELSE c

(***************************************************************************)
(* User entity (domain/entities/user.py).                                  *)
(***************************************************************************)
MinUsernameLen == 3
MaxUsernameLen == 50
MaxEmailLen == 255
MaxFullNameLen == 100

\* re.match(r'^[a-zA-Z0-9_]+$', username)
UsernamePattern(s) ==
    /\ s # <<>>
    /\ AllIn(s, LetterChars \cup DigitChars \cup {"_"})

\* re.match(r'^[a-zA-Z0-9._%+-]+@[a-zA-Z0-9.-]+\.[a-zA-Z]{2,}$', email):
\* a local part, "@", a domain, ".", and two or more letters
EmailPattern(s) ==
    \E i, j \in 1..Len(s) :
        /\ 1 < i /\ i + 1 < j /\ j + 2 <= Len(s)
        /\ s[i] = "@"
        /\ s[j] = "."
        /\ AllIn(SubSeq(s, 1, i - 1),
                 LetterChars \cup DigitChars \cup {".", "_", "%", "+", "-"})
        /\ AllIn(SubSeq(s, i + 1, j - 1),
                 LetterChars \cup DigitChars \cup {".", "-"})
        /\ AllIn(SubSeq(s, j + 1, Len(s)), LetterChars)

\* _validate_username: valid when no ValueError is raised; the entity then
\* holds the stripped username
User_validate_username(u) ==
    /\ IsStr(u.username)
    /\ Strip(u.username) # <<>>
    /\ Len(Strip(u.username)) >= MinUsernameLen
    /\ Len(Strip(u.username)) <= MaxUsernameLen
    /\ UsernamePattern(Strip(u.username))
    /\ Head(Strip(u.username)) # "_"
    /\ Strip(u.username)[Len(Strip(u.username))] # "_"

\* _validate_email: the entity then holds the stripped, lowercased email
User_validate_email(u) ==
    /\ IsStr(u.email)
    /\ Strip(u.email) # <<>>
    /\ Len(ToLower(Strip(u.email))) <= MaxEmailLen
    /\ EmailPattern(ToLower(Strip(u.email)))

User_validate_password_hash(u) ==
    /\ IsStr(u.password_hash)
    /\ Strip(u.password_hash) # <<>>

\* _validate_full_name: None passes; a str is stripped, and stored as None
\* when nothing is left
User_validate_full_name(u) ==
    u.full_name # NoneVal =>
        /\ IsStr(u.full_name)
        /\ Len(Strip(u.full_name)) <= MaxFullNameLen

NormFullName(s) ==
    IF s = NoneVal THEN NoneVal
    ELSE IF Strip(s) # <<>> THEN Strip(s) ELSE NoneVal

\* User(username, email, password_hash, full_name): active, not superuser.
\* __post_init__ validates the full name only when it is truthy.  created_at
\* and updated_at are two reads of the clock, t then t2.
User_new(id, username, email, password_hash, full_name, t, t2) ==
    LET u == [id |-> id, username |-> username, email |-> email,
              password_hash |-> password_hash, full_name |-> full_name,
              is_active |-> TRUE, is_superuser |-> FALSE,
              created_at |-> t, updated_at |-> t2]
        truthy == full_name # NoneVal /\ full_name # <<>>
    IN  IF /\ User_validate_username(u)
           /\ User_validate_email(u)
           /\ User_validate_password_hash(u)
           /\ (truthy => User_validate_full_name(u))
        THEN [out |-> "ok",
              e |-> [u EXCEPT !.username = Strip(username),
                              !.email = ToLower(Strip(email)),
                              !.full_name = IF truthy THEN NormFullName(full_name)
                                            ELSE full_name]]
        ELSE [out |-> "ValueError", e |-> u]

User_update_username(u, new_username, t) ==
    LET u1 == [u EXCEPT !.username = new_username]
    IN  IF User_validate_username(u1)
        THEN [out |-> "ok",
              e |-> [u1 EXCEPT !.username = Strip(new_username), !.updated_at = t]]
        ELSE [out |-> "ValueError", e |-> [u1 EXCEPT !.username = u.username]]

User_update_email(u, new_email, t) ==
    LET u1 == [u EXCEPT !.email = new_email]
    IN  IF User_validate_email(u1)
        THEN [out |-> "ok",
              e |-> [u1 EXCEPT !.email = ToLower(Strip(new_email)),
                               !.updated_at = t]]
        ELSE [out |-> "ValueError", e |-> [u1 EXCEPT !.email = u.email]]

User_update_password_hash(u, new_password_hash, t) ==
    LET u1 == [u EXCEPT !.password_hash = new_password_hash]
    IN  IF User_validate_password_hash(u1)
        THEN [out |-> "ok", e |-> [u1 EXCEPT !.updated_at = t]]
        ELSE [out |-> "ValueError",
              e |-> [u1 EXCEPT !.password_hash = u.password_hash]]

User_update_full_name(u, new_full_name, t) ==
    LET u1 == [u EXCEPT !.full_name = new_full_name]
    IN  IF User_validate_full_name(u1)
        THEN [out |-> "ok",
              e |-> [u1 EXCEPT !.full_name = NormFullName(new_full_name),
                               !.updated_at = t]]
        ELSE [out |-> "ValueError", e |-> [u1 EXCEPT !.full_name = u.full_name]]

User_activate(u, t) ==
    IF ~u.is_active
    THEN [out |-> "ok", e |-> [u EXCEPT !.is_active = TRUE, !.updated_at = t]]
    ELSE [out |-> "ok", e |-> u]

User_deactivate(u, t) ==
    IF u.is_active
    THEN [out |-> "ok", e |-> [u EXCEPT !.is_active = FALSE, !.updated_at = t]]
    ELSE [out |-> "ok", e |-> u]

User_make_superuser(u, t) ==
    IF ~u.is_active THEN [out |-> "ValueError", e |-> u]
    ELSE IF ~u.is_superuser
    THEN [out |-> "ok", e |-> [u EXCEPT !.is_superuser = TRUE, !.updated_at = t]]
    ELSE [out |-> "ok", e |-> u]

User_remove_superuser(u, t) ==
    IF u.is_superuser
    THEN [out |-> "ok", e |-> [u EXCEPT !.is_superuser = FALSE, !.updated_at = t]]
    ELSE [out |-> "ok", e |-> u]

(***************************************************************************)
(* The entity-level specification: one entity held in memory, and calls of *)
(* its mutators with valid and invalid arguments at any time.              *)
(***************************************************************************)
TitleInputs ==
    {<<"H", "i">>, Rep("x", MaxTitleLen), Rep("x", MaxTitleLen + 1),
     <<>>, <<" ", "\t">>, NotAStr}

ContentInputs == {<<"t", "e", "x", "t">>, <<"T">>, <<>>, <<" ">>, NotAStr}

CommentContentInputs ==
    {<<"o", "k">>, Rep("y", MaxCommentLen), Rep("y", MaxCommentLen + 1),
     <<>>, <<"\n">>, NotAStr}

AuthorNameInputs ==
    {NoneVal, <<"B", "o">>, <<>>, Rep("n", MaxAuthorNameLen + 1), NotAStr}

AuthorEmailInputs ==
    {NoneVal, <<"b", "@", "x">>, <<>>, <<"b", "o", "b">>,
     Rep("@", MaxAuthorEmailLen + 1)}

UsernameInputs ==
    {<<"b", "o", "b">>, <<" ", "A", "_", "1", " ">>, <<"_", "a", "b">>,
     <<"a", "b", "_">>, <<"a", "b">>, <<"a", " ", "b">>, <<>>,
     Rep("u", MaxUsernameLen + 1)}

EmailInputs ==
    {<<"a", "@", "b", ".", "i", "o">>, <<" ", "A", "@", "B", ".", "I", "O">>,
     <<"a", "@", "b">>, <<"a", "b", ".", "i", "o">>, <<"a", "@", "b", ".", "i">>,
     <<>>}

HashInputs == {<<"h", "1">>, <<"h", "2">>, <<>>, <<" ">>, NotAStr}

FullNameInputs ==
    {NoneVal, <<"J", "o">>, <<" ", "J", " ">>, <<" ">>,
     Rep("f", MaxFullNameLen + 1), NotAStr}

CommentIdInputs == 0..MaxIds

EntityCall(op, args, r) ==
    /\ prev' = ent.e
    /\ ent' = [ent EXCEPT !.e = r.e]
    /\ last' = [op |-> op, out |-> r.out, args |-> args, t |-> now]
    /\ UNCHANGED <<now, posts, comments, users, calls, tokens>>

\* the readings of the clock a handler that starts at t can still make
Later(t) == {t} \cup {u \in {t + 1} : u <= MaxTime}

\* a constructed entity: its two timestamps are two reads of the clock
EntityInit ==
    \E t2 \in Later(0) :
        /\ now = t2
        /\ posts = <<>> /\ comments = <<>> /\ users = <<>> /\ calls = <<>>
        /\ tokens = {}
        /\ ent \in
            {[kind |-> "post",
              e |-> BlogPost_new(1, <<"H", "i">>, <<"T">>, 0, t2).e],
             [kind |-> "comment",
              e |-> Comment_new(1, <<"o", "k">>, 1, Anonymous, <<>>, 0, t2).e],
             [kind |-> "user",
              e |-> User_new(1, <<"b", "o", "b">>,
                             <<"a", "@", "b", ".", "i", "o">>,
                             <<"h", "1">>, NoneVal, 0, t2).e]}
        /\ prev = ent.e
        /\ last = [op |-> "new", out |-> "ok", args |-> <<>>, t |-> t2]

Tick ==
    /\ now < MaxTime
    /\ now' = now + 1
    /\ UNCHANGED <<posts, comments, users, last, calls, tokens, ent, prev>>

Call_BlogPost_update_title ==
    /\ ent.kind = "post"
    /\ \E x \in TitleInputs :
        EntityCall("BlogPost.update_title", <<x>>, BlogPost_update_title(ent.e, x, now))

Call_BlogPost_update_content ==
    /\ ent.kind = "post"
    /\ \E x \in ContentInputs :
        EntityCall("BlogPost.update_content", <<x>>,
                   BlogPost_update_content(ent.e, x, now))

Call_BlogPost_add_comment_id ==
    /\ ent.kind = "post"
    /\ \E x \in CommentIdInputs :
        EntityCall("BlogPost.add_comment_id", <<x>>,
                   BlogPost_add_comment_id(ent.e, x, now))

Call_BlogPost_remove_comment_id ==
    /\ ent.kind = "post"
    /\ \E x \in CommentIdInputs :
        EntityCall("BlogPost.remove_comment_id", <<x>>,
                   BlogPost_remove_comment_id(ent.e, x, now))

Call_Comment_update_content ==
    /\ ent.kind = "comment"
    /\ \E x \in CommentContentInputs :
        EntityCall("Comment.update_content", <<x>>,
                   Comment_update_content(ent.e, x, now))

Call_Comment_update_author_info ==
    /\ ent.kind = "comment"
    /\ \E x \in AuthorNameInputs, y \in AuthorEmailInputs :
        EntityCall("Comment.update_author_info", <<x, y>>,
                   Comment_update_author_info(ent.e, x, y, now))

Call_Comment_approve ==
    /\ ent.kind = "comment"
    /\ EntityCall("Comment.approve", <<>>,
                  [out |-> "ok", e |-> Comment_approve(ent.e, now)])

Call_Comment_reject ==
    /\ ent.kind = "comment"
    /\ EntityCall("Comment.reject", <<>>,
                  [out |-> "ok", e |-> Comment_reject(ent.e, now)])

Call_User_update_username ==
    /\ ent.kind = "user"
    /\ \E x \in UsernameInputs :
        EntityCall("User.update_username", <<x>>,
                   User_update_username(ent.e, x, now))

Call_User_update_email ==
    /\ ent.kind = "user"
    /\ \E x \in EmailInputs :
        EntityCall("User.update_email", <<x>>, User_update_email(ent.e, x, now))

Call_User_update_password_hash ==
    /\ ent.kind = "user"
    /\ \E x \in HashInputs :
        EntityCall("User.update_password_hash", <<x>>,
                   User_update_password_hash(ent.e, x, now))

Call_User_update_full_name ==
    /\ ent.kind = "user"
    /\ \E x \in FullNameInputs :
        EntityCall("User.update_full_name", <<x>>,
                   User_update_full_name(ent.e, x, now))

Call_User_activate ==
    /\ ent.kind = "user"
    /\ EntityCall("User.activate", <<>>, User_activate(ent.e, now))

Call_User_deactivate ==
    /\ ent.kind = "user"
    /\ EntityCall("User.deactivate", <<>>, User_deactivate(ent.e, now))

Call_User_make_superuser ==
    /\ ent.kind = "user"
    /\ EntityCall("User.make_superuser", <<>>, User_make_superuser(ent.e, now))

Call_User_remove_superuser ==
    /\ ent.kind = "user"
    /\ EntityCall("User.remove_superuser", <<>>, User_remove_superuser(ent.e, now))

EntityNext ==
    \/ Tick
    \/ Call_BlogPost_update_title
    \/ Call_BlogPost_update_content
    \/ Call_BlogPost_add_comment_id
    \/ Call_BlogPost_remove_comment_id
    \/ Call_Comment_update_content
    \/ Call_Comment_update_author_info
    \/ Call_Comment_approve
    \/ Call_Comment_reject
    \/ Call_User_update_username
    \/ Call_User_update_email
    \/ Call_User_update_password_hash
    \/ Call_User_update_full_name
    \/ Call_User_activate
    \/ Call_User_deactivate
    \/ Call_User_make_superuser
    \/ Call_User_remove_superuser

EntitySpec == EntityInit /\ [][EntityNext]_vars

(***************************************************************************)
(* The database: tables blog_posts (id -> row) and comments (rows in       *)
(* insertion order), and the SQLAlchemy repositories over them.  A         *)
(* repository operator takes the tables as the session sees them and       *)
(* returns what it returns, with the tables after its flush.               *)
(***************************************************************************)
Ids == 1..MaxIds

\* BlogPostModel.comments: the rows of comments whose blog_post_id is this post
RelatedComments(C, id) ==
    LET OfPost(row) == row.blog_post_id = id
    IN  SelectSeq(C, OfPost)

\* BlogPostModel.to_entity with the comments relationship left unread
BlogPostModel_to_entity_NoComments(P, C, id) ==
    [id |-> id, title |-> P[id].title, content |-> P[id].content,
     created_at |-> P[id].created_at, updated_at |-> P[id].updated_at,
     comment_ids |-> <<>>]

\* BlogPostModel.to_entity: comment_ids come from the relationship
BlogPostModel_to_entity(P, C, id) ==
    [id |-> id, title |-> P[id].title, content |-> P[id].content,
     created_at |-> P[id].created_at, updated_at |-> P[id].updated_at,
     comment_ids |-> [i \in 1..Len(RelatedComments(C, id)) |->
                        RelatedComments(C, id)[i].id]]

\* BlogPostModel.from_entity: the row of an entity (comment_ids is no column)
BlogPostModel_from_entity(e) ==
    [title |-> e.title, content |-> e.content,
     created_at |-> e.created_at, updated_at |-> e.updated_at]

\* BlogPostModel.update_from_entity: title, content and updated_at only
BlogPostModel_update_from_entity(row, e) ==
    [row EXCEPT !.title = e.title, !.content = e.content,
                !.updated_at = e.updated_at]

\* CommentModel.to_entity / from_entity: the row holds every field
CommentModel_to_entity(row) == row

CommentModel_from_entity(e) ==
    [id |-> e.id, content |-> e.content, blog_post_id |-> e.blog_post_id,
     author_name |-> e.author_name, author_email |-> e.author_email,
     created_at |-> e.created_at, updated_at |-> e.updated_at,
     is_approved |-> e.is_approved]

CommentModel_update_from_entity(row, e) ==
    [row EXCEPT !.content = e.content, !.author_name = e.author_name,
                !.author_email = e.author_email, !.updated_at = e.updated_at,
                !.is_approved = e.is_approved]

CommentIndex(C, id) == CHOOSE i \in 1..Len(C) : C[i].id = id

BlogPostRepo_exists(P, id) == id \in DOMAIN P

BlogPostRepo_get_by_id(P, C, id) ==
    IF id \in DOMAIN P
    THEN [found |-> TRUE, e |-> BlogPostModel_to_entity(P, C, id)]
    ELSE [found |-> FALSE]

\* create: DuplicateBlogPostError when session.get finds the id
BlogPostRepo_create(P, e) ==
    IF e.id \in DOMAIN P
    THEN [out |-> "DuplicateBlogPostError", P |-> P]
    ELSE [out |-> "ok",
          P |-> [i \in DOMAIN P \cup {e.id} |->
                    IF i = e.id THEN BlogPostModel_from_entity(e) ELSE P[i]]]

BlogPostRepo_update(P, e) ==
    IF e.id \notin DOMAIN P
    THEN [out |-> "BlogPostNotFoundError", P |-> P]
    ELSE [out |-> "ok",
          P |-> [P EXCEPT ![e.id] = BlogPostModel_update_from_entity(@, e)]]

\* delete: session.delete cascades to the post's comments ("all, delete-orphan")
BlogPostRepo_delete(P, C, id) ==
    IF id \notin DOMAIN P
    THEN [ret |-> FALSE, P |-> P, C |-> C]
    ELSE LET Others(row) == row.blog_post_id # id
         IN  [ret |-> TRUE,
              P |-> [i \in DOMAIN P \ {id} |-> P[i]],
              C |-> SelectSeq(C, Others)]

CommentRepo_exists(C, id) == \E i \in 1..Len(C) : C[i].id = id

CommentRepo_get_by_id(C, id) ==
    IF CommentRepo_exists(C, id)
    THEN [found |-> TRUE, e |-> CommentModel_to_entity(C[CommentIndex(C, id)])]
    ELSE [found |-> FALSE]

\* create: DuplicateCommentError when session.get finds the id; the flush fails
\* (CommentRepositoryError) when the foreign key names no post
CommentRepo_create(P, C, e) ==
    IF CommentRepo_exists(C, e.id)
    THEN [out |-> "DuplicateCommentError", C |-> C]
    ELSE IF e.blog_post_id \notin DOMAIN P
    THEN [out |-> "CommentRepositoryError", C |-> C]
    ELSE [out |-> "ok", C |-> Append(C, CommentModel_from_entity(e))]

CommentRepo_update(C, e) ==
    IF ~CommentRepo_exists(C, e.id)
    THEN [out |-> "CommentNotFoundError", C |-> C]
    ELSE [out |-> "ok",
          C |-> [C EXCEPT ![CommentIndex(C, e.id)] =
                            CommentModel_update_from_entity(@, e)]]

CommentRepo_delete(C, id) ==
    IF ~CommentRepo_exists(C, id)
    THEN [ret |-> FALSE, C |-> C]
    ELSE LET Others(row) == row.id # id
         IN  [ret |-> TRUE, C |-> SelectSeq(C, Others)]

\* delete_by_blog_post_id: the rows deleted (rowcount) and the table left
CommentRepo_delete_by_blog_post_id(C, blog_post_id) ==
    LET Others(row) == row.blog_post_id # blog_post_id
    IN  [ret |-> Len(C) - Len(SelectSeq(C, Others)), C |-> SelectSeq(C, Others)]

(***************************************************************************)
(* Blog post and comment use cases (domain/use_cases).  A use case takes   *)
(* the tables as its session sees them and returns its outcome, whether    *)
(* the outcome is an exception, the tables after its last flush and the    *)
(* repository calls it issued.  id is the uuid4 the new entity draws.      *)
(***************************************************************************)
create_blog_post(P, C, id, title, content, t, t2) ==
    LET n == BlogPost_new(id, title, content, t, t2)
        c == BlogPostRepo_create(P, n.e)
    IN  IF n.out # "ok"
        THEN [out |-> "ValueError", raised |-> TRUE, P |-> P, C |-> C,
              rows |-> 0, calls |-> <<>>]
        ELSE IF BlogPostRepo_exists(P, n.e.id)
        THEN [out |-> "DuplicateBlogPostError", raised |-> TRUE, P |-> P, C |-> C,
              rows |-> 0, calls |-> <<"blog_post.exists">>]
        ELSE [out |-> c.out, raised |-> c.out # "ok", P |-> c.P, C |-> C,
              rows |-> 0, calls |-> <<"blog_post.exists", "blog_post.create">>]

\* delete_blog_post that reports success without ever deleting the post row
delete_blog_post_KeepsPost(P, C, blog_post_id) ==
    LET dc == CommentRepo_delete_by_blog_post_id(C, blog_post_id)
    IN  [out |-> "True", raised |-> FALSE, P |-> P, C |-> dc.C, rows |-> dc.ret,
         calls |-> <<"comment.delete_by_blog_post_id">>]

delete_blog_post(P, C, blog_post_id) ==
    LET dc == CommentRepo_delete_by_blog_post_id(C, blog_post_id)
        dp == BlogPostRepo_delete(P, dc.C, blog_post_id)
    IN  IF ~BlogPostRepo_exists(P, blog_post_id)
        THEN [out |-> "False", raised |-> FALSE, P |-> P, C |-> C,
              rows |-> 0, calls |-> <<"blog_post.exists">>]
        ELSE [out |-> IF dp.ret THEN "True" ELSE "False", raised |-> FALSE,
              P |-> dp.P, C |-> dp.C, rows |-> dc.ret,
              calls |-> <<"blog_post.exists", "comment.delete_by_blog_post_id",
                          "blog_post.delete">>]

\* create_comment without the lookup of the blog post
create_comment_NoPostLookup(P, C, id, blog_post_id, content, author_name, author_email, t, t2, t3) ==
    LET n == Comment_new(id, content, blog_post_id, author_name, author_email, t, t2)
        c == CommentRepo_create(P, C, n.e)
    IN  IF n.out # "ok"
        THEN [out |-> "ValueError", raised |-> TRUE, P |-> P, C |-> C,
              rows |-> 0, calls |-> <<>>]
        ELSE IF CommentRepo_exists(C, n.e.id)
        THEN [out |-> "DuplicateCommentError", raised |-> TRUE, P |-> P, C |-> C,
              rows |-> 0, calls |-> <<"comment.exists">>]
        ELSE [out |-> c.out, raised |-> c.out # "ok", P |-> P, C |-> c.C,
              rows |-> 0, calls |-> <<"comment.exists", "comment.create">>]

create_comment(P, C, id, blog_post_id, content, author_name, author_email, t, t2, t3) ==
    LET g == BlogPostRepo_get_by_id(P, C, blog_post_id)
        n == Comment_new(id, content, blog_post_id, author_name, author_email, t, t2)
        c == CommentRepo_create(P, C, n.e)
        a == BlogPost_add_comment_id(g.e, n.e.id, t3)
        u == BlogPostRepo_update(P, a.e)
    IN  IF ~g.found
        THEN [out |-> "BlogPostNotFoundError", raised |-> TRUE, P |-> P, C |-> C,
              rows |-> 0, calls |-> <<"blog_post.get_by_id">>]
        ELSE IF n.out # "ok"
        THEN [out |-> "ValueError", raised |-> TRUE, P |-> P, C |-> C,
              rows |-> 0, calls |-> <<"blog_post.get_by_id">>]
        ELSE IF CommentRepo_exists(C, n.e.id)
        THEN [out |-> "DuplicateCommentError", raised |-> TRUE, P |-> P, C |-> C,
              rows |-> 0, calls |-> <<"blog_post.get_by_id", "comment.exists">>]
        ELSE IF c.out # "ok"
        THEN [out |-> c.out, raised |-> TRUE, P |-> P, C |-> c.C,
              rows |-> 0,
              calls |-> <<"blog_post.get_by_id", "comment.exists",
                          "comment.create">>]
        ELSE IF a.out # "ok"
        THEN [out |-> "ValueError", raised |-> TRUE, P |-> P, C |-> c.C,
              rows |-> 0,
              calls |-> <<"blog_post.get_by_id", "comment.exists",
                          "comment.create">>]
        ELSE [out |-> u.out, raised |-> u.out # "ok", P |-> u.P, C |-> c.C,
              rows |-> 0,
              calls |-> <<"blog_post.get_by_id", "comment.exists",
                          "comment.create", "blog_post.update">>]

\* what a call returns in place of a post when it returns none
NoPost ==
    [id |-> NotAUUID, title |-> <<>>, content |-> <<>>, created_at |-> 0,
     updated_at |-> 0, comment_ids |-> <<>>]

\* get_blog_post_by_id: the post, or BlogPostNotFoundError
get_blog_post_by_id(P, C, blog_post_id) ==
    LET g == BlogPostRepo_get_by_id(P, C, blog_post_id)
    IN  IF ~g.found
        THEN [out |-> "BlogPostNotFoundError", raised |-> TRUE, P |-> P,
              C |-> C, rows |-> 0, e |-> NoPost,
              calls |-> <<"blog_post.get_by_id">>]
        ELSE [out |-> "ok", raised |-> FALSE, P |-> P, C |-> C, rows |-> 0,
              e |-> g.e, calls |-> <<"blog_post.get_by_id">>]

\* get_comment_by_id: the comment, or CommentNotFoundError
get_comment_by_id(C, comment_id) == CommentRepo_get_by_id(C, comment_id)

approve_comment(P, C, comment_id, t) ==
    LET g == get_comment_by_id(C, comment_id)
        u == CommentRepo_update(C, Comment_approve(g.e, t))
    IN  IF ~g.found
        THEN [out |-> "CommentNotFoundError", raised |-> TRUE, P |-> P, C |-> C,
              rows |-> 0, calls |-> <<"comment.get_by_id">>]
        ELSE [out |-> u.out, raised |-> u.out # "ok", P |-> P, C |-> u.C,
              rows |-> 0, calls |-> <<"comment.get_by_id", "comment.update">>]

reject_comment(P, C, comment_id, t) ==
    LET g == get_comment_by_id(C, comment_id)
        u == CommentRepo_update(C, Comment_reject(g.e, t))
    IN  IF ~g.found
        THEN [out |-> "CommentNotFoundError", raised |-> TRUE, P |-> P, C |-> C,
              rows |-> 0, calls |-> <<"comment.get_by_id">>]
        ELSE [out |-> u.out, raised |-> u.out # "ok", P |-> P, C |-> u.C,
              rows |-> 0, calls |-> <<"comment.get_by_id", "comment.update">>]

\* the loop of moderate_comments_batch over the ids still to do; C and issued
\* are the table and the repository calls after the ids already done
RECURSIVE moderate_each(_, _, _, _, _, _)
moderate_each(P, C, comment_ids, action, t, issued) ==
    IF comment_ids = <<>>
    THEN [out |-> "ok", raised |-> FALSE, P |-> P, C |-> C, rows |-> 0,
          calls |-> issued]
    ELSE LET r == IF action = "approve"
                  THEN approve_comment(P, C, Head(comment_ids), t)
                  ELSE reject_comment(P, C, Head(comment_ids), t)
         IN  IF r.raised
             THEN [out |-> r.out, raised |-> TRUE, P |-> P, C |-> C,
                   rows |-> 0, calls |-> issued \o r.calls]
             ELSE moderate_each(P, r.C, Tail(comment_ids), action, t,
                                issued \o r.calls)

\* moderate_comments_batch that looks every id up before it changes any
moderate_comments_batch_AllOrNothing(P, C, comment_ids, action, t) ==
    IF action \notin {"approve", "reject"}
    THEN [out |-> "ValueError", raised |-> TRUE, P |-> P, C |-> C,
          rows |-> 0, calls |-> <<>>]
    ELSE IF \E k \in 1..Len(comment_ids) : ~CommentRepo_exists(C, comment_ids[k])
    THEN [out |-> "CommentNotFoundError", raised |-> TRUE, P |-> P, C |-> C,
          rows |-> 0, calls |-> <<"comment.get_by_id">>]
    ELSE moderate_each(P, C, comment_ids, action, t, <<>>)

\* moderate_comments_batch: the action is checked, then the ids are done in
\* list order; an exception ends the loop and undoes nothing
moderate_comments_batch(P, C, comment_ids, action, t) ==
    IF action \notin {"approve", "reject"}
    THEN [out |-> "ValueError", raised |-> TRUE, P |-> P, C |-> C,
          rows |-> 0, calls |-> <<>>]
    ELSE moderate_each(P, C, comment_ids, action, t, <<>>)

\* delete_comment that gives up when the owning post is not found
delete_comment_NeedsPost(P, C, comment_id, t) ==
    LET g  == get_comment_by_id(C, comment_id)
        bp == BlogPostRepo_get_by_id(P, C, g.e.blog_post_id)
        rm == BlogPost_remove_comment_id(bp.e, comment_id, t)
        u  == BlogPostRepo_update(P, rm.e)
        d  == CommentRepo_delete(C, comment_id)
    IN  IF ~g.found
        THEN [out |-> "False", raised |-> FALSE, P |-> P, C |-> C,
              rows |-> 0, calls |-> <<"comment.get_by_id">>]
        ELSE IF ~bp.found \/ rm.out # "ok" \/ u.out # "ok"
        THEN [out |-> "False", raised |-> FALSE, P |-> P, C |-> C, rows |-> 0,
              calls |-> <<"comment.get_by_id", "blog_post.get_by_id">>]
        ELSE [out |-> IF d.ret THEN "True" ELSE "False", raised |-> FALSE,
              P |-> u.P, C |-> d.C, rows |-> IF d.ret THEN 1 ELSE 0,
              calls |-> <<"comment.get_by_id", "blog_post.get_by_id",
                          "blog_post.update", "comment.delete">>]

delete_comment(P, C, comment_id, t) ==
    LET g  == get_comment_by_id(C, comment_id)
        bp == BlogPostRepo_get_by_id(P, C, g.e.blog_post_id)
        rm == BlogPost_remove_comment_id(bp.e, comment_id, t)
        u  == BlogPostRepo_update(P, rm.e)
        touched == bp.found /\ rm.out = "ok"
        P1 == IF touched THEN u.P ELSE P
        d  == CommentRepo_delete(C, comment_id)
    IN  IF ~g.found
        THEN [out |-> "False", raised |-> FALSE, P |-> P, C |-> C,
              rows |-> 0, calls |-> <<"comment.get_by_id">>]
        ELSE IF touched /\ u.out # "ok"
        THEN [out |-> u.out, raised |-> TRUE, P |-> P, C |-> C, rows |-> 0,
              calls |-> <<"comment.get_by_id", "blog_post.get_by_id",
                          "blog_post.update">>]
        ELSE [out |-> IF d.ret THEN "True" ELSE "False", raised |-> FALSE,
              P |-> P1, C |-> d.C, rows |-> IF d.ret THEN 1 ELSE 0,
              calls |-> <<"comment.get_by_id", "blog_post.get_by_id">>
                        \o (IF touched THEN <<"blog_post.update">> ELSE <<>>)
                        \o <<"comment.delete">>]

(***************************************************************************)
(* The blog specification: requests against the blog post and comment      *)
(* endpoints, one at a time.  get_session commits when the handler returns *)
(* and rolls back when it raises.                                          *)
(***************************************************************************)
MaxComments == 2

CommentIds == 1..MaxComments

PostIdArgs == 0..MaxIds

CommentIdArgs == 0..MaxComments

TitleArgs == {<<"H", "i">>, <<" ">>}

ContentArgs == {<<"T">>}

CommentContentArgs == {<<"o", "k">>, <<>>}

\* text holds the strings the request carried, t2 is the time the handler ends
\* get_session that commits in every case
get_session_CommitsOnError(op, r, post_id, comment_id, text, t2) ==
    /\ posts' = r.P
    /\ comments' = r.C
    /\ calls' = r.calls
    /\ last' = [op |-> op, out |-> r.out, raised |-> r.raised,
                post_id |-> post_id, comment_id |-> comment_id,
                rows |-> r.rows, text |-> text,
                e |-> IF "e" \in DOMAIN r THEN r.e ELSE NoPost]
    /\ now' = t2
    /\ UNCHANGED <<users, tokens, ent, prev>>

get_session(op, r, post_id, comment_id, text, t2) ==
    /\ posts' = IF r.raised THEN posts ELSE r.P
    /\ comments' = IF r.raised THEN comments ELSE r.C
    /\ calls' = r.calls
    /\ last' = [op |-> op, out |-> r.out, raised |-> r.raised,
                post_id |-> post_id, comment_id |-> comment_id,
                rows |-> r.rows, text |-> text,
                e |-> IF "e" \in DOMAIN r THEN r.e ELSE NoPost]
    /\ now' = t2
    /\ UNCHANGED <<users, tokens, ent, prev>>

Init ==
    /\ now = 0
    /\ posts = <<>> /\ comments = <<>> /\ users = <<>> /\ calls = <<>>
    /\ tokens = {}
    /\ ent = [kind |-> "none"] /\ prev = [kind |-> "none"]
    /\ last = [op |-> "init", out |-> "ok", raised |-> FALSE, post_id |-> 0,
               comment_id |-> 0, rows |-> 0, text |-> <<>>, e |-> NoPost]

CreateBlogPost ==
    \E id \in Ids, title \in TitleArgs, content \in ContentArgs,
       t2 \in Later(now) :
        get_session("create_blog_post",
                    create_blog_post(posts, comments, id, title, content,
                                     now, t2),
                    id, 0, <<title, content>>, t2)

GetBlogPostById ==
    \E id \in PostIdArgs :
        get_session("get_blog_post_by_id",
                    get_blog_post_by_id(posts, comments, id), id, 0, <<>>, now)

DeleteBlogPost ==
    \E id \in PostIdArgs :
        get_session("delete_blog_post",
                    delete_blog_post(posts, comments, id), id, 0, <<>>, now)

CreateComment ==
    \E id \in CommentIds, post_id \in PostIdArgs,
       content \in CommentContentArgs, t2 \in Later(now) :
        \E t3 \in Later(t2) :
            get_session("create_comment",
                        create_comment(posts, comments, id, post_id, content,
                                       Anonymous, <<>>, now, t2, t3),
                        post_id, id, <<content>>, t3)

DeleteComment ==
    \E id \in CommentIdArgs :
        get_session("delete_comment",
                    delete_comment(posts, comments, id, now), 0, id, <<>>, now)

ApproveComment ==
    \E id \in CommentIdArgs :
        get_session("approve_comment",
                    approve_comment(posts, comments, id, now), 0, id, <<>>, now)

RejectComment ==
    \E id \in CommentIdArgs :
        get_session("reject_comment",
                    reject_comment(posts, comments, id, now), 0, id, <<>>, now)

Next ==
    \/ Tick
    \/ CreateBlogPost
    \/ GetBlogPostById
    \/ DeleteBlogPost
    \/ CreateComment
    \/ DeleteComment
    \/ ApproveComment
    \/ RejectComment

Spec == Init /\ [][Next]_vars

(***************************************************************************)
(* Updating a post, and the blog post endpoints PUT and DELETE              *)
(* /api/posts/{post_id} (infrastructure/web/controllers).                  *)
(***************************************************************************)
\* update_blog_post that persists each field as soon as it is applied
update_blog_post_PersistsEach(P, C, blog_post_id, title, content, t, t2) ==
    LET g == get_blog_post_by_id(P, C, blog_post_id)
        a == IF title # NoneVal THEN BlogPost_update_title(g.e, title, t)
             ELSE [out |-> "ok", e |-> g.e]
        b == IF content # NoneVal THEN BlogPost_update_content(a.e, content, t2)
             ELSE [out |-> "ok", e |-> a.e]
        u == BlogPostRepo_update(P, b.e)
    IN  IF g.raised THEN g
        ELSE IF a.out # "ok"
        THEN [out |-> "ValueError", raised |-> TRUE, P |-> P, C |-> C,
              rows |-> 0, e |-> NoPost, calls |-> <<"blog_post.get_by_id">>]
        ELSE IF b.out # "ok"
        THEN [out |-> "ValueError", raised |-> TRUE,
              P |-> BlogPostRepo_update(P, a.e).P, C |-> C,
              rows |-> 0, e |-> NoPost,
              calls |-> <<"blog_post.get_by_id", "blog_post.update">>]
        ELSE [out |-> u.out, raised |-> u.out # "ok", P |-> u.P, C |-> C,
              rows |-> 0,
              e |-> IF u.out = "ok"
                    THEN BlogPostModel_to_entity(u.P, C, blog_post_id)
                    ELSE NoPost,
              calls |-> <<"blog_post.get_by_id", "blog_post.update">>]

\* update_blog_post: load, apply the provided fields through the entity's
\* mutators (each reads the clock), persist; the loaded entity is a detached
\* BlogPost, so a field applied before a later one raises is lost with it
update_blog_post(P, C, blog_post_id, title, content, t, t2) ==
    LET g == get_blog_post_by_id(P, C, blog_post_id)
        a == IF title # NoneVal THEN BlogPost_update_title(g.e, title, t)
             ELSE [out |-> "ok", e |-> g.e]
        b == IF content # NoneVal THEN BlogPost_update_content(a.e, content, t2)
             ELSE [out |-> "ok", e |-> a.e]
        u == BlogPostRepo_update(P, b.e)
    IN  IF g.raised THEN g
        ELSE IF a.out # "ok" \/ b.out # "ok"
        THEN [out |-> "ValueError", raised |-> TRUE, P |-> P, C |-> C,
              rows |-> 0, e |-> NoPost, calls |-> <<"blog_post.get_by_id">>]
        ELSE [out |-> u.out, raised |-> u.out # "ok", P |-> u.P, C |-> C,
              rows |-> 0,
              e |-> IF u.out = "ok"
                    THEN BlogPostModel_to_entity(u.P, C, blog_post_id)
                    ELSE NoPost,
              calls |-> <<"blog_post.get_by_id", "blog_post.update">>]

\* a field of BlogPostUpdateRequest: None passes, a string must have
\* min_length 1 (and max_length for the title) and is stripped by its
\* validator, which raises on a whitespace-only value
BlogPostUpdateRequest_field(v, max_length) ==
    IF v = NoneVal THEN [ok |-> TRUE, v |-> NoneVal]
    ELSE IF Len(v) < 1 \/ Len(v) > max_length \/ Strip(v) = <<>>
    THEN [ok |-> FALSE, v |-> v]
    ELSE [ok |-> TRUE, v |-> Strip(v)]

\* content has no max_length
NoMaxLength == 1000000

\* what the handler's except clauses make of what its try block raised;
\* HTTPException is an Exception, so except Exception catches it too
router_except(raised, clauses) ==
    IF raised = "" THEN ""
    ELSE IF raised \in DOMAIN clauses THEN clauses[raised]
    ELSE "500"

\* PUT /api/posts/{post_id} of an authenticated user
router_update_blog_post(P, C, post_id, title, content, t, t2) ==
    LET vt == BlogPostUpdateRequest_field(title, MaxTitleLen)
        vc == BlogPostUpdateRequest_field(content, NoMaxLength)
        r  == update_blog_post(P, C, post_id, vt.v, vc.v, t, t2)
        neither == vt.v = NoneVal /\ vc.v = NoneVal
        raised == IF neither THEN "HTTPException 400"
                  ELSE IF r.raised THEN r.out
                  ELSE ""
        status == router_except(raised,
                                [x \in {"BlogPostNotFoundError"} |-> "404"]
                                @@ [x \in {"ValueError"} |-> "400"])
    IN  IF ~vt.ok \/ ~vc.ok
        THEN [out |-> "422", raised |-> TRUE, P |-> P, C |-> C, rows |-> 0,
              e |-> NoPost, calls |-> <<>>]
        ELSE IF status # ""
        THEN [out |-> status, raised |-> TRUE, P |-> P, C |-> C, rows |-> 0,
              e |-> NoPost, calls |-> IF neither THEN <<>> ELSE r.calls]
        ELSE [r EXCEPT !.out = "200"]

\* DELETE /api/posts/{post_id} of an authenticated user
router_delete_blog_post(P, C, post_id) ==
    LET r == delete_blog_post(P, C, post_id)
        raised == IF r.raised THEN r.out
                  ELSE IF r.out = "False" THEN "HTTPException 404"
                  ELSE ""
        status == router_except(raised, <<>>)
    IN  IF status # ""
        THEN [out |-> status, raised |-> TRUE, P |-> P, C |-> C, rows |-> 0,
              calls |-> r.calls]
        ELSE [r EXCEPT !.out = "204"]

UpdateTitleArgs == {NoneVal, <<"Y", "o">>, <<" ">>}

UpdateContentArgs == {NoneVal, <<"U">>, <<" ">>}

PutBlogPost ==
    \E id \in Ids, title \in UpdateTitleArgs,
       content \in UpdateContentArgs, t \in Later(now) :
        \E t2 \in Later(t) :
            get_session("PUT /api/posts/{post_id}",
                        router_update_blog_post(posts, comments, id, title,
                                                content, t, t2),
                        id, 0, <<title, content>>, t2)

DeleteBlogPostRequest ==
    \E id \in Ids :
        get_session("DELETE /api/posts/{post_id}",
                    router_delete_blog_post(posts, comments, id),
                    id, 0, <<>>, now)

RouterNext ==
    \/ CreateBlogPost
    \/ PutBlogPost
    \/ DeleteBlogPostRequest

RouterSpec == Init /\ [][RouterNext]_vars

(***************************************************************************)
(* The moderation specification.  No endpoint calls moderate_comments_batch:*)
(* its caller holds the session, and the tables are the session's, with    *)
(* every flush the use case made before it returned or raised.             *)
(***************************************************************************)
MaxBatch == 3

\* the lists of ids a batch names: no id twice
BatchArgs ==
    {ids \in UNION {[1..n -> CommentIdArgs] : n \in 0..MaxBatch} :
        \A i, j \in 1..Len(ids) : ids[i] = ids[j] => i = j}

ActionArgs == {"approve", "reject", "delete"}

ModerateCommentsBatch ==
    \E comment_ids \in BatchArgs, action \in ActionArgs :
        LET r == moderate_comments_batch(posts, comments, comment_ids,
                                         action, now)
        IN  /\ comments' = r.C
            /\ calls' = r.calls
            /\ last' = [op |-> "moderate_comments_batch", out |-> r.out,
                        comment_ids |-> comment_ids, action |-> action]
            /\ UNCHANGED <<now, posts, users, tokens, ent, prev>>

ModerationNext ==
    \/ CreateBlogPost
    \/ CreateComment
    \/ ModerateCommentsBatch

ModerationSpec == Init /\ [][ModerationNext]_vars

(***************************************************************************)
(* Passwords and reset tokens (infrastructure/security).                   *)
(***************************************************************************)
\* CryptContext(schemes=["bcrypt"]).hash: the digest of the password.  The
\* salt is left out: a digest determines the one password it verifies.
hash_password_IgnoresPassword(password) == <<"$", "2", "b", "$">>

hash_password(password) == <<"$", "2", "b", "$">> \o password

\* CryptContext.verify: TRUE when the digest is the password's
verify_password(plain_password, hashed_password) ==
    hashed_password = hash_password(plain_password)

\* TokenSettings: the windows, in minutes (the unit of the clock wherever
\* tokens are issued)
access_token_expire_minutes == 30

reset_token_expire_minutes == 15

\* str(uuid) and UUID(string): a payload carries an id as a string; parsing
\* anything else, None included, raises
str_UUID(id) == <<"uuid", id>>

UUID_parse(s) ==
    IF Len(s) = 2 /\ s[1] = "uuid" /\ IsUUID(s[2])
    THEN [ok |-> TRUE, id |-> s[2]]
    ELSE [ok |-> FALSE, id |-> NotAUUID]

\* A dict is the set of its items, each a <<key, value>>.
\* dict.get: the value under the key, or None
Get(payload, key) ==
    IF \E item \in payload : item[1] = key
    THEN (CHOOSE item \in payload : item[1] = key)[2]
    ELSE NoneVal

\* to_encode that keeps none of the caller's claims
to_encode_DropsClaims(data, expire, type) ==
    {<<"exp", expire>>, <<"type", type>>}

\* data.copy() followed by update({"exp": expire, "type": type}): the two
\* keys are set whether or not data held them
to_encode(data, expire, type) ==
    {item \in data : item[1] \notin {"exp", "type"}}
        \cup {<<"exp", expire>>, <<"type", type>>}

\* jwt.encode with the secret key: the payload under a signature
jwt_encode(payload) == [payload |-> payload, signed |-> TRUE]

\* jwt.decode with the secret key: JWTError when the signature is not the
\* key's or exp lies in the past
jwt_decode(token, t) ==
    IF ~token.signed THEN [ok |-> FALSE]
    ELSE IF Get(token.payload, "exp") < t THEN [ok |-> FALSE]
    ELSE [ok |-> TRUE, payload |-> token.payload]

TokenManager_create_access_token(data, t) ==
    jwt_encode(to_encode(data, t + access_token_expire_minutes, "access"))

create_reset_token(data, t) ==
    jwt_encode(to_encode(data, t + reset_token_expire_minutes, "reset"))

\* a string that is no token signed with the secret key
GarbageToken ==
    [payload |-> {<<"exp", 0>>, <<"type", "reset">>,
                  <<"user_id", str_UUID(1)>>},
     signed |-> FALSE]

\* decode_token that leaves the type tag unchecked
decode_token_AnyType(token, t) ==
    LET d == jwt_decode(token, t)
    IN  IF ~d.ok THEN [out |-> "TokenInvalidError"]
        ELSE [out |-> "ok", payload |-> d.payload]

\* decode_token: every JWTError, expiry included, and a type tag other than
\* "access" leave as TokenInvalidError
decode_token(token, t) ==
    LET d == jwt_decode(token, t)
    IN  IF ~d.ok THEN [out |-> "TokenInvalidError"]
        ELSE IF Get(d.payload, "type") # "access"
        THEN [out |-> "TokenInvalidError"]
        ELSE [out |-> "ok", payload |-> d.payload]

\* decode_reset_token: the same with the type tag "reset"
decode_reset_token(token, t) ==
    LET d == jwt_decode(token, t)
    IN  IF ~d.ok THEN [out |-> "TokenInvalidError"]
        ELSE IF Get(d.payload, "type") # "reset"
        THEN [out |-> "TokenInvalidError"]
        ELSE [out |-> "ok", payload |-> d.payload]

(***************************************************************************)
(* Table users (id -> row) and SQLAlchemyUserRepository.                   *)
(***************************************************************************)
UserModel_to_entity(row) == row

UserModel_from_entity(e) == e

UserModel_update_from_entity(row, e) ==
    [row EXCEPT !.username = e.username, !.email = e.email,
                !.password_hash = e.password_hash, !.full_name = e.full_name,
                !.is_active = e.is_active, !.is_superuser = e.is_superuser,
                !.updated_at = e.updated_at]

UserRepo_get_by_id(U, user_id) ==
    IF user_id \in DOMAIN U
    THEN [found |-> TRUE, e |-> UserModel_to_entity(U[user_id])]
    ELSE [found |-> FALSE]

\* get_by_username: WHERE username = :username
UserRepo_get_by_username(U, username) ==
    IF \E i \in DOMAIN U : U[i].username = username
    THEN [found |-> TRUE,
          e |-> UserModel_to_entity(
                    U[CHOOSE i \in DOMAIN U : U[i].username = username])]
    ELSE [found |-> FALSE]

\* get_by_email: WHERE email = :email.lower()
UserRepo_get_by_email(U, email) ==
    IF \E i \in DOMAIN U : U[i].email = ToLower(email)
    THEN [found |-> TRUE,
          e |-> UserModel_to_entity(
                    U[CHOOSE i \in DOMAIN U : U[i].email = ToLower(email)])]
    ELSE [found |-> FALSE]

UserRepo_exists_by_username(U, username) ==
    \E i \in DOMAIN U : U[i].username = username

UserRepo_exists_by_email(U, email) ==
    \E i \in DOMAIN U : U[i].email = ToLower(email)

\* create that looks for the id only
UserRepo_create_IdOnly(U, e) ==
    IF e.id \in DOMAIN U THEN [out |-> "DuplicateUserError.id", U |-> U]
    ELSE [out |-> "ok",
          U |-> [i \in DOMAIN U \cup {e.id} |->
                    IF i = e.id THEN UserModel_from_entity(e) ELSE U[i]]]

\* create: DuplicateUserError when the id, the entity's username or the
\* entity's email is stored already
UserRepo_create(U, e) ==
    IF e.id \in DOMAIN U THEN [out |-> "DuplicateUserError.id", U |-> U]
    ELSE IF UserRepo_exists_by_username(U, e.username)
    THEN [out |-> "DuplicateUserError.username", U |-> U]
    ELSE IF UserRepo_exists_by_email(U, e.email)
    THEN [out |-> "DuplicateUserError.email", U |-> U]
    ELSE [out |-> "ok",
          U |-> [i \in DOMAIN U \cup {e.id} |->
                    IF i = e.id THEN UserModel_from_entity(e) ELSE U[i]]]

UserRepo_update(U, e) ==
    IF e.id \notin DOMAIN U
    THEN [out |-> "UserNotFoundError", U |-> U]
    ELSE [out |-> "ok",
          U |-> [U EXCEPT ![e.id] = UserModel_update_from_entity(@, e)]]

\* delete: False when no row has the id
UserRepo_delete(U, user_id) ==
    IF user_id \notin DOMAIN U
    THEN [ret |-> FALSE, U |-> U]
    ELSE [ret |-> TRUE, U |-> [i \in DOMAIN U \ {user_id} |-> U[i]]]

(***************************************************************************)
(* Authentication use cases (domain/use_cases/auth_use_cases.py).          *)
(***************************************************************************)
MinPasswordLen == 8

SpecialChars ==
    {"!", "@", "#", "$", "%", "^", "&", "*", "(", ")", "_", "+", "-", "=", "[",
     "]", "{", "}", "|", ";", ":", ",", ".", "<", ">", "?"}

\* the strength rule with the length bound off by one
validate_password_strength_LongerThanMin(password) ==
    /\ Len(password) > MinPasswordLen
    /\ \E i \in 1..Len(password) : password[i] \in UpperChars
    /\ \E i \in 1..Len(password) : password[i] \in LowerChars
    /\ \E i \in 1..Len(password) : password[i] \in DigitChars
    /\ \E i \in 1..Len(password) : password[i] \in SpecialChars

\* _validate_password_strength: TRUE when no ValueError is raised
validate_password_strength(password) ==
    /\ Len(password) >= MinPasswordLen
    /\ \E i \in 1..Len(password) : password[i] \in UpperChars
    /\ \E i \in 1..Len(password) : password[i] \in LowerChars
    /\ \E i \in 1..Len(password) : password[i] \in DigitChars
    /\ \E i \in 1..Len(password) : password[i] \in SpecialChars

\* register_user with the strength rule applied after the uniqueness lookups
register_user_LookupsFirst(U, id, username, email, password, full_name, t, t2) ==
    LET n == User_new(id, username, email, hash_password(password), full_name, t, t2)
        c == UserRepo_create(U, n.e)
    IN  IF UserRepo_exists_by_username(U, username)
        THEN [out |-> "DuplicateUserError.username", raised |-> TRUE, U |-> U,
              user_id |-> 0, calls |-> <<"user.exists_by_username">>]
        ELSE IF UserRepo_exists_by_email(U, email)
        THEN [out |-> "DuplicateUserError.email", raised |-> TRUE, U |-> U,
              user_id |-> 0,
              calls |-> <<"user.exists_by_username", "user.exists_by_email">>]
        ELSE IF ~validate_password_strength(password) \/ n.out # "ok"
        THEN [out |-> "ValueError", raised |-> TRUE, U |-> U, user_id |-> 0,
              calls |-> <<"user.exists_by_username", "user.exists_by_email">>]
        ELSE [out |-> c.out, raised |-> c.out # "ok", U |-> c.U,
              user_id |-> IF c.out = "ok" THEN n.e.id ELSE 0,
              calls |-> <<"user.exists_by_username", "user.exists_by_email",
                          "user.create">>]

\* register_user with the email lookup ahead of the username lookup
register_user_EmailFirst(U, id, username, email, password, full_name, t, t2) ==
    LET n == User_new(id, username, email, hash_password(password), full_name, t, t2)
        c == UserRepo_create(U, n.e)
    IN  IF ~validate_password_strength(password)
        THEN [out |-> "ValueError", raised |-> TRUE, U |-> U, user_id |-> 0,
              calls |-> <<>>]
        ELSE IF UserRepo_exists_by_email(U, email)
        THEN [out |-> "DuplicateUserError.email", raised |-> TRUE, U |-> U,
              user_id |-> 0, calls |-> <<"user.exists_by_email">>]
        ELSE IF UserRepo_exists_by_username(U, username)
        THEN [out |-> "DuplicateUserError.username", raised |-> TRUE, U |-> U,
              user_id |-> 0,
              calls |-> <<"user.exists_by_email", "user.exists_by_username">>]
        ELSE IF n.out # "ok"
        THEN [out |-> "ValueError", raised |-> TRUE, U |-> U, user_id |-> 0,
              calls |-> <<"user.exists_by_email", "user.exists_by_username">>]
        ELSE [out |-> c.out, raised |-> c.out # "ok", U |-> c.U,
              user_id |-> IF c.out = "ok" THEN n.e.id ELSE 0,
              calls |-> <<"user.exists_by_email", "user.exists_by_username",
                          "user.create">>]

register_user(U, id, username, email, password, full_name, t, t2) ==
    LET n == User_new(id, username, email, hash_password(password), full_name, t, t2)
        c == UserRepo_create(U, n.e)
    IN  IF ~validate_password_strength(password)
        THEN [out |-> "ValueError", raised |-> TRUE, U |-> U, user_id |-> 0,
              calls |-> <<>>]
        ELSE IF UserRepo_exists_by_username(U, username)
        THEN [out |-> "DuplicateUserError.username", raised |-> TRUE, U |-> U,
              user_id |-> 0, calls |-> <<"user.exists_by_username">>]
        ELSE IF UserRepo_exists_by_email(U, email)
        THEN [out |-> "DuplicateUserError.email", raised |-> TRUE, U |-> U,
              user_id |-> 0,
              calls |-> <<"user.exists_by_username", "user.exists_by_email">>]
        ELSE IF n.out # "ok"
        THEN [out |-> "ValueError", raised |-> TRUE, U |-> U, user_id |-> 0,
              calls |-> <<"user.exists_by_username", "user.exists_by_email">>]
        ELSE [out |-> c.out, raised |-> c.out # "ok", U |-> c.U,
              user_id |-> IF c.out = "ok" THEN n.e.id ELSE 0,
              calls |-> <<"user.exists_by_username", "user.exists_by_email",
                          "user.create">>]

\* the user a login finds: by username first, then by email
find_user(U, username_or_email) ==
    IF UserRepo_get_by_username(U, username_or_email).found
    THEN UserRepo_get_by_username(U, username_or_email)
    ELSE UserRepo_get_by_email(U, username_or_email)

\* authenticate_user that lets an inactive user in
authenticate_user_IgnoresActive(U, username_or_email, password) ==
    LET f == find_user(U, username_or_email)
    IN  IF ~f.found
        THEN [out |-> "None", raised |-> FALSE, U |-> U, user_id |-> 0,
              calls |-> <<"user.get_by_username", "user.get_by_email">>]
        ELSE IF ~verify_password(password, f.e.password_hash)
        THEN [out |-> "None", raised |-> FALSE, U |-> U, user_id |-> 0,
              calls |-> <<"user.get_by_username", "user.get_by_email">>]
        ELSE [out |-> "user", raised |-> FALSE, U |-> U, user_id |-> f.e.id,
              calls |-> <<"user.get_by_username", "user.get_by_email">>]

\* authenticate_user: out is "user" (the user user_id is returned) or "None"
authenticate_user(U, username_or_email, password) ==
    LET byname == UserRepo_get_by_username(U, username_or_email).found
        f == find_user(U, username_or_email)
        k == IF byname THEN <<"user.get_by_username">>
             ELSE <<"user.get_by_username", "user.get_by_email">>
    IN  IF ~f.found \/ ~f.e.is_active
        THEN [out |-> "None", raised |-> FALSE, U |-> U, user_id |-> 0,
              calls |-> k]
        ELSE IF ~verify_password(password, f.e.password_hash)
        THEN [out |-> "None", raised |-> FALSE, U |-> U, user_id |-> 0,
              calls |-> k]
        ELSE [out |-> "user", raised |-> FALSE, U |-> U, user_id |-> f.e.id,
              calls |-> k]

\* change_password with the strength rule checked ahead of the current password
change_password_StrengthFirst(U, user_id, current_password, new_password, t) ==
    LET g == UserRepo_get_by_id(U, user_id)
        h == User_update_password_hash(g.e, hash_password(new_password), t)
        u == UserRepo_update(U, h.e)
    IN  IF ~g.found
        THEN [out |-> "UserNotFoundError", raised |-> TRUE, U |-> U,
              user_id |-> user_id, calls |-> <<"user.get_by_id">>]
        ELSE IF ~validate_password_strength(new_password)
        THEN [out |-> "ValueError: strength", raised |-> TRUE, U |-> U,
              user_id |-> user_id, calls |-> <<"user.get_by_id">>]
        ELSE IF ~verify_password(current_password, g.e.password_hash)
        THEN [out |-> "ValueError: Current password is incorrect",
              raised |-> TRUE, U |-> U, user_id |-> user_id,
              calls |-> <<"user.get_by_id">>]
        ELSE IF verify_password(new_password, g.e.password_hash)
        THEN [out |-> "ValueError: New password must be different",
              raised |-> TRUE, U |-> U, user_id |-> user_id,
              calls |-> <<"user.get_by_id">>]
        ELSE [out |-> IF u.out = "ok" THEN "True" ELSE u.out,
              raised |-> u.out # "ok", U |-> u.U, user_id |-> user_id,
              calls |-> <<"user.get_by_id", "user.update">>]

\* change_password: the ValueError outcomes carry the message that tells the
\* failed check ("strength" stands for the messages of the strength rule)
change_password(U, user_id, current_password, new_password, t) ==
    LET g == UserRepo_get_by_id(U, user_id)
        h == User_update_password_hash(g.e, hash_password(new_password), t)
        u == UserRepo_update(U, h.e)
    IN  IF ~g.found
        THEN [out |-> "UserNotFoundError", raised |-> TRUE, U |-> U,
              user_id |-> user_id, calls |-> <<"user.get_by_id">>]
        ELSE IF ~verify_password(current_password, g.e.password_hash)
        THEN [out |-> "ValueError: Current password is incorrect",
              raised |-> TRUE, U |-> U, user_id |-> user_id,
              calls |-> <<"user.get_by_id">>]
        ELSE IF ~validate_password_strength(new_password)
        THEN [out |-> "ValueError: strength", raised |-> TRUE, U |-> U,
              user_id |-> user_id, calls |-> <<"user.get_by_id">>]
        ELSE IF verify_password(new_password, g.e.password_hash)
        THEN [out |-> "ValueError: New password must be different",
              raised |-> TRUE, U |-> U, user_id |-> user_id,
              calls |-> <<"user.get_by_id">>]
        ELSE IF h.out # "ok"
        THEN [out |-> "ValueError", raised |-> TRUE, U |-> U,
              user_id |-> user_id, calls |-> <<"user.get_by_id">>]
        ELSE [out |-> IF u.out = "ok" THEN "True" ELSE u.out,
              raised |-> u.out # "ok", U |-> u.U, user_id |-> user_id,
              calls |-> <<"user.get_by_id", "user.update">>]

\* reset_password that makes a token for a deactivated user too
reset_password_TokenForInactive(U, email, t) ==
    LET f == UserRepo_get_by_email(U, email)
    IN  IF ~f.found
        THEN [out |-> "True", raised |-> FALSE, U |-> U, user_id |-> 0,
              issued |-> {}, calls |-> <<"user.get_by_email">>]
        ELSE [out |-> "True", raised |-> FALSE, U |-> U, user_id |-> f.e.id,
              issued |-> {create_reset_token({<<"user_id", str_UUID(f.e.id)>>}, t)},
              calls |-> <<"user.get_by_email">>]

\* reset_password: always True; issued holds the token made for an active user
reset_password(U, email, t) ==
    LET f == UserRepo_get_by_email(U, email)
    IN  IF ~f.found \/ ~f.e.is_active
        THEN [out |-> "True", raised |-> FALSE, U |-> U, user_id |-> 0,
              issued |-> {}, calls |-> <<"user.get_by_email">>]
        ELSE [out |-> "True", raised |-> FALSE, U |-> U, user_id |-> f.e.id,
              issued |-> {create_reset_token({<<"user_id", str_UUID(f.e.id)>>}, t)},
              calls |-> <<"user.get_by_email">>]

\* ValueError("Invalid or expired reset token")
InvalidResetToken == "ValueError: Invalid or expired reset token"

\* confirm_password_reset that lets the strength failure through as it is
confirm_password_reset_StrengthError(U, reset_token, new_password, t) ==
    LET p == decode_reset_token(reset_token, t)
        i == UUID_parse(Get(p.payload, "user_id"))
        g == UserRepo_get_by_id(U, i.id)
        h == User_update_password_hash(g.e, hash_password(new_password), t)
        u == UserRepo_update(U, h.e)
    IN  IF p.out # "ok" \/ ~i.ok
        THEN [out |-> InvalidResetToken, raised |-> TRUE, U |-> U,
              user_id |-> 0, calls |-> <<>>]
        ELSE IF ~g.found \/ ~g.e.is_active
        THEN [out |-> InvalidResetToken, raised |-> TRUE, U |-> U,
              user_id |-> i.id, calls |-> <<"user.get_by_id">>]
        ELSE IF ~validate_password_strength(new_password) \/ h.out # "ok"
        THEN [out |-> "ValueError: strength", raised |-> TRUE, U |-> U,
              user_id |-> i.id, calls |-> <<"user.get_by_id">>]
        ELSE [out |-> IF u.out = "ok" THEN "True" ELSE InvalidResetToken,
              raised |-> u.out # "ok", U |-> u.U, user_id |-> i.id,
              calls |-> <<"user.get_by_id", "user.update">>]

\* confirm_password_reset: every exception leaves as the one ValueError
confirm_password_reset(U, reset_token, new_password, t) ==
    LET p == decode_reset_token(reset_token, t)
        i == UUID_parse(Get(p.payload, "user_id"))
        g == UserRepo_get_by_id(U, i.id)
        h == User_update_password_hash(g.e, hash_password(new_password), t)
        u == UserRepo_update(U, h.e)
    IN  IF p.out # "ok"
        THEN [out |-> InvalidResetToken, raised |-> TRUE, U |-> U,
              user_id |-> 0, calls |-> <<>>]
        ELSE IF ~i.ok
        THEN [out |-> InvalidResetToken, raised |-> TRUE, U |-> U,
              user_id |-> 0, calls |-> <<>>]
        ELSE IF ~g.found \/ ~g.e.is_active
        THEN [out |-> InvalidResetToken, raised |-> TRUE, U |-> U,
              user_id |-> i.id, calls |-> <<"user.get_by_id">>]
        ELSE IF ~validate_password_strength(new_password) \/ h.out # "ok"
        THEN [out |-> InvalidResetToken, raised |-> TRUE, U |-> U,
              user_id |-> i.id, calls |-> <<"user.get_by_id">>]
        ELSE [out |-> IF u.out = "ok" THEN "True" ELSE InvalidResetToken,
              raised |-> u.out # "ok", U |-> u.U, user_id |-> i.id,
              calls |-> <<"user.get_by_id", "user.update">>]

\* AuthUseCases.create_access_token: the token the login response carries
create_access_token(user, t) ==
    TokenManager_create_access_token(
        {<<"sub", str_UUID(user.id)>>, <<"username", user.username>>,
         <<"email", user.email>>, <<"is_superuser", user.is_superuser>>}, t)

\* get_current_user that does not look at is_active
get_current_user_IgnoresActive(U, token, t) ==
    LET p == decode_token(token, t)
        i == UUID_parse(Get(p.payload, "sub"))
        g == UserRepo_get_by_id(U, i.id)
    IN  IF p.out # "ok" \/ ~i.ok
        THEN [out |-> "None", raised |-> FALSE, U |-> U, user_id |-> 0,
              calls |-> <<>>]
        ELSE IF g.found
        THEN [out |-> "user", raised |-> FALSE, U |-> U, user_id |-> g.e.id,
              calls |-> <<"user.get_by_id">>]
        ELSE [out |-> "None", raised |-> FALSE, U |-> U, user_id |-> 0,
              calls |-> <<"user.get_by_id">>]

\* get_current_user that turns down a token made before the user row was
\* last written
get_current_user_RevokedByUpdate(U, token, t) ==
    LET p == decode_token(token, t)
        i == UUID_parse(Get(p.payload, "sub"))
        g == UserRepo_get_by_id(U, i.id)
    IN  IF p.out # "ok" \/ ~i.ok
        THEN [out |-> "None", raised |-> FALSE, U |-> U, user_id |-> 0,
              calls |-> <<>>]
        ELSE IF /\ g.found /\ g.e.is_active
                /\ g.e.updated_at + access_token_expire_minutes
                     <= Get(p.payload, "exp")
        THEN [out |-> "user", raised |-> FALSE, U |-> U, user_id |-> g.e.id,
              calls |-> <<"user.get_by_id">>]
        ELSE [out |-> "None", raised |-> FALSE, U |-> U, user_id |-> 0,
              calls |-> <<"user.get_by_id">>]

\* get_current_user: the user the token names when the token decodes as an
\* access token and the user is stored and active; every exception is caught
\* and None returned
get_current_user(U, token, t) ==
    LET p == decode_token(token, t)
        i == UUID_parse(Get(p.payload, "sub"))
        g == UserRepo_get_by_id(U, i.id)
    IN  IF p.out # "ok" \/ ~i.ok
        THEN [out |-> "None", raised |-> FALSE, U |-> U, user_id |-> 0,
              calls |-> <<>>]
        ELSE IF g.found /\ g.e.is_active
        THEN [out |-> "user", raised |-> FALSE, U |-> U, user_id |-> g.e.id,
              calls |-> <<"user.get_by_id">>]
        ELSE [out |-> "None", raised |-> FALSE, U |-> U, user_id |-> 0,
              calls |-> <<"user.get_by_id">>]

\* POST /login: authenticate_user, then create_access_token for the user;
\* HTTP 401 and no token when authenticate_user returns None
login_user(U, username_or_email, password, t) ==
    LET a == authenticate_user(U, username_or_email, password)
    IN  IF a.out # "user"
        THEN [out |-> "401", raised |-> TRUE, U |-> U, user_id |-> 0,
              issued |-> {}, calls |-> a.calls]
        ELSE [out |-> "token", raised |-> FALSE, U |-> U,
              user_id |-> a.user_id,
              issued |-> {create_access_token(U[a.user_id], t)},
              calls |-> a.calls]

\* An operator deleting an account: no use case does, the repository does
delete_user(U, user_id) ==
    LET d == UserRepo_delete(U, user_id)
    IN  [out |-> IF d.ret THEN "True" ELSE "False", raised |-> FALSE,
         U |-> d.U, user_id |-> user_id, calls |-> <<"user.delete">>]

\* An operator deactivating an account: no use case does, the entity and the
\* repository do
deactivate_user(U, user_id, t) ==
    LET g == UserRepo_get_by_id(U, user_id)
        u == UserRepo_update(U, User_deactivate(g.e, t).e)
    IN  IF ~g.found
        THEN [out |-> "UserNotFoundError", raised |-> TRUE, U |-> U,
              user_id |-> user_id, calls |-> <<"user.get_by_id">>]
        ELSE [out |-> u.out, raised |-> u.out # "ok", U |-> u.U,
              user_id |-> user_id, calls |-> <<"user.get_by_id", "user.update">>]

(***************************************************************************)
(* The authentication specification: requests against the auth endpoints,  *)
(* one at a time, each in its own session (get_session).                   *)
(***************************************************************************)
Bob == <<"b", "o", "b">>

Amy == <<"a", "m", "y">>

Zed == <<"z", "e", "d">>

EmailA == <<"a", "@", "b", ".", "i", "o">>

EmailAUpper == <<"A", "@", "b", ".", "i", "o">>

EmailC == <<"c", "@", "d", ".", "i", "o">>

PwA == <<"A", "b", "c", "d", "e", "f", "1", "!">>

PwB == <<"X", "y", "z", "w", "v", "u", "2", "?">>

PwShort == <<"A", "b", "1", "!">>

PwNoSpecial == <<"A", "b", "c", "d", "e", "f", "1", "2">>

UsernameArgs == {Bob, Amy}

EmailArgs == {EmailA, EmailAUpper, EmailC}

RegisterPasswordArgs == {PwA, PwShort, PwNoSpecial}

IdentifierArgs == {Bob, Amy, Zed, EmailA, EmailAUpper, EmailC}

PasswordArgs == {PwA, PwB}

NewPasswordArgs == {PwA, PwB, PwShort}

ConfirmPasswordArgs == {PwB, PwShort}

ResetEmailArgs == {EmailAUpper}

LoginArgs == {Bob}

\* the tokens kept in flight at once
MaxTokens == 2

\* no token: what a request that carries none has in its place
NoToken == [payload |-> {}, signed |-> FALSE]

\* token is the token the request carried, issued the tokens the handler
\* made, t2 the time the handler ends
auth_session(op, r, a, b, c, token, issued, t2) ==
    /\ Cardinality(tokens \cup issued) <= MaxTokens
    /\ users' = IF r.raised THEN users ELSE r.U
    /\ tokens' = tokens \cup issued
    /\ calls' = r.calls
    /\ last' = [op |-> op, out |-> r.out, user_id |-> r.user_id,
                a |-> a, b |-> b, c |-> c, token |-> token]
    /\ now' = t2
    /\ UNCHANGED <<posts, comments, ent, prev>>

AuthInit ==
    /\ now = 0
    /\ posts = <<>> /\ comments = <<>> /\ users = <<>> /\ calls = <<>>
    /\ tokens = {}
    /\ ent = [kind |-> "none"] /\ prev = [kind |-> "none"]
    /\ last = [op |-> "init", out |-> "ok", user_id |-> 0,
               a |-> <<>>, b |-> <<>>, c |-> <<>>, token |-> NoToken]

RegisterUser ==
    \E id \in Ids, username \in UsernameArgs, email \in EmailArgs,
       password \in RegisterPasswordArgs, t2 \in Later(now) :
        auth_session("register_user",
                     register_user(users, id, username, email, password,
                                   NoneVal, now, t2),
                     username, email, password, NoToken, {}, t2)

AuthenticateUser ==
    \E ident \in IdentifierArgs, password \in PasswordArgs :
        auth_session("authenticate_user",
                     authenticate_user(users, ident, password),
                     ident, password, <<>>, NoToken, {}, now)

ChangePassword ==
    \E id \in Ids, current \in PasswordArgs, new \in NewPasswordArgs :
        auth_session("change_password",
                     change_password(users, id, current, new, now),
                     current, new, <<>>, NoToken, {}, now)

ResetPassword ==
    \E email \in ResetEmailArgs :
        auth_session("reset_password", reset_password(users, email, now),
                     email, <<>>, <<>>, NoToken,
                     reset_password(users, email, now).issued, now)

\* a token in flight with its signature replaced
Forged(T) == {[tk EXCEPT !.signed = FALSE] : tk \in T} \cup {GarbageToken}

ConfirmPasswordReset ==
    \E token \in tokens \cup Forged(tokens), new \in ConfirmPasswordArgs :
        auth_session("confirm_password_reset",
                     confirm_password_reset(users, token, new, now),
                     <<>>, new, <<>>, token, {}, now)

DeactivateUser ==
    \E id \in Ids :
        auth_session("deactivate_user", deactivate_user(users, id, now),
                     <<>>, <<>>, <<>>, NoToken, {}, now)

\* registration and login
AuthNext ==
    \/ Tick
    \/ RegisterUser
    \/ AuthenticateUser
    \/ DeactivateUser

AuthSpec == AuthInit /\ [][AuthNext]_vars

\* uuid4(): an id no stored user has and no token in flight names
FreshIds(U) ==
    LET Used == DOMAIN U \cup {UUID_parse(Get(tk.payload, k)).id :
                                  tk \in tokens, k \in {"sub", "user_id"}}
    IN  {i \in Ids : i \notin Used /\ \A j \in 1..(i - 1) : j \in Used}

\* the accounts whose passwords are changed and reset
RegisterAccount ==
    \E id \in FreshIds(users), account \in {<<Bob, EmailA>>, <<Amy, EmailC>>},
       t2 \in Later(now) :
        auth_session("register_user",
                     register_user(users, id, account[1], account[2], PwA,
                                   NoneVal, now, t2),
                     account[1], account[2], PwA, NoToken, {}, t2)

PasswordNext ==
    \/ Tick
    \/ RegisterAccount
    \/ ChangePassword
    \/ ResetPassword
    \/ ConfirmPasswordReset
    \/ DeactivateUser

PasswordSpec == AuthInit /\ [][PasswordNext]_vars

(***************************************************************************)
(* The token specification: logins, password resets and requests that      *)
(* carry a token, with the clock in minutes.                               *)
(***************************************************************************)
MaxMinutes == 31

\* time passes: a reset window, or a minute more than one
Elapse ==
    /\ \E d \in {reset_token_expire_minutes, reset_token_expire_minutes + 1} :
          /\ now + d <= MaxMinutes
          /\ now' = now + d
    /\ UNCHANGED <<posts, comments, users, last, calls, tokens, ent, prev>>

\* the account that logs in and resets its password
RegisterBob ==
    \E id \in FreshIds(users), t2 \in Later(now) :
        auth_session("register_user",
                     register_user(users, id, Bob, EmailA, PwA, NoneVal,
                                   now, t2),
                     Bob, EmailA, PwA, NoToken, {}, t2)

LoginUser ==
    \E ident \in LoginArgs, password \in {PwA} :
        auth_session("login_user", login_user(users, ident, password, now),
                     ident, password, <<>>, NoToken,
                     login_user(users, ident, password, now).issued, now)

GetCurrentUser ==
    \E token \in tokens \cup Forged(tokens) :
        auth_session("get_current_user",
                     get_current_user(users, token, now),
                     <<>>, <<>>, <<>>, token, {}, now)

DeleteUser ==
    \E id \in Ids :
        auth_session("delete_user", delete_user(users, id),
                     <<>>, <<>>, <<>>, NoToken, {}, now)

TokenNext ==
    \/ Elapse
    \/ RegisterBob
    \/ LoginUser
    \/ ChangePassword
    \/ ResetPassword
    \/ ConfirmPasswordReset
    \/ GetCurrentUser
    \/ DeactivateUser
    \/ DeleteUser

TokenSpec == AuthInit /\ [][TokenNext]_vars

(***************************************************************************)
(* The strength specification: the three operations that take a new        *)
(* password, called with passwords that miss one requirement each and with *)
(* passwords that end in each punctuation character.                       *)
(***************************************************************************)
\* characters a password may end with: the ASCII punctuation and the space
EndChars ==
    {"!", "@", "#", "$", "%", "^", "&", "*", "(", ")", "_", "+", "-", "=", "[",
     "]", "{", "}", "|", ";", ":", ",", ".", "<", ">", "?", "/", "~", "`", "'",
     " "}

StrengthArgs ==
    {<<"A", "b", "c", "d", "e", "f", "1", c>> : c \in EndChars}
    \cup {<<"A", "b", "c", "d", "e", "1", "!">>,
          <<"a", "b", "c", "d", "e", "f", "1", "!">>,
          <<"A", "B", "C", "D", "E", "F", "1", "!">>,
          <<"A", "b", "c", "d", "e", "f", "g", "!">>,
          <<"A", "b", "c", "d", "e", "f", "1", "!", "2">>,
          <<>>}

RegisterStrength ==
    \E id \in FreshIds(users), password \in StrengthArgs :
        auth_session("register_user",
                     register_user(users, id, Bob, EmailA, password, NoneVal,
                                   now, now),
                     Bob, EmailA, password, NoToken, {}, now)

ChangeStrength ==
    \E id \in Ids, current \in PasswordArgs, new \in StrengthArgs :
        auth_session("change_password",
                     change_password(users, id, current, new, now),
                     current, new, <<>>, NoToken, {}, now)

ConfirmStrength ==
    \E token \in tokens, new \in StrengthArgs :
        auth_session("confirm_password_reset",
                     confirm_password_reset(users, token, new, now),
                     <<>>, new, <<>>, token, {}, now)

StrengthNext ==
    \/ RegisterStrength
    \/ ResetPassword
    \/ ChangeStrength
    \/ ConfirmStrength

StrengthSpec == AuthInit /\ [][StrengthNext]_vars

(***************************************************************************)
(* Registrations whose usernames and emails differ from stored ones by     *)
(* surrounding blanks or by letter case.                                   *)
(***************************************************************************)
BobPadded == <<" ">> \o Bob \o <<" ">>

EmailAPadded == <<" ">> \o EmailA

VariantUsernameArgs == {Bob, BobPadded, Amy}

VariantEmailArgs == {EmailA, EmailAUpper, EmailAPadded, EmailC}

RegisterVariant ==
    \E id \in Ids, username \in VariantUsernameArgs,
       email \in VariantEmailArgs, t2 \in Later(now) :
        auth_session("register_user",
                     register_user(users, id, username, email, PwA, NoneVal,
                                   now, t2),
                     username, email, PwA, NoToken, {}, t2)

UniqueNext ==
    \/ RegisterVariant

UniqueSpec == AuthInit /\ [][UniqueNext]_vars

(***************************************************************************)
(* Repository failures.  Every method of a repository wraps what its       *)
(* session raises in the RepositoryError of its repository; the use case   *)
(* that called it sees the exception at the call and handles it with the   *)
(* except clauses around that call.  k names the repository call of the    *)
(* use case that raises (the k-th it issues); when the use case issues      *)
(* fewer calls, nothing fails.                                             *)
(***************************************************************************)
RepositoryError(call) ==
    IF call \in {"user.get_by_id", "user.update", "user.create",
                 "user.get_by_username", "user.get_by_email",
                 "user.exists_by_username", "user.exists_by_email"}
    THEN "UserRepositoryError"
    ELSE IF call \in {"comment.get_by_id", "comment.create", "comment.update",
                      "comment.delete", "comment.delete_by_blog_post_id"}
    THEN "CommentRepositoryError"
    ELSE "BlogPostRepositoryError"

\* get_current_user: the call sits in try ... except Exception: return None
get_current_user_failing(U, token, t, k) ==
    LET r == get_current_user(U, token, t)
    IN  IF k \notin 1..Len(r.calls) THEN r
        ELSE [out |-> "None", raised |-> FALSE, U |-> U, user_id |-> 0,
              calls |-> SubSeq(r.calls, 1, k)]

\* confirm_password_reset: both calls sit in try ... except Exception:
\* raise ValueError("Invalid or expired reset token")
confirm_password_reset_failing(U, reset_token, new_password, t, k) ==
    LET r == confirm_password_reset(U, reset_token, new_password, t)
    IN  IF k \notin 1..Len(r.calls) THEN r
        ELSE [out |-> InvalidResetToken, raised |-> TRUE, U |-> U,
              user_id |-> r.user_id, calls |-> SubSeq(r.calls, 1, k)]

\* change_password: no try around its calls, the exception leaves as it is
change_password_failing(U, user_id, current_password, new_password, t, k) ==
    LET r == change_password(U, user_id, current_password, new_password, t)
    IN  IF k \notin 1..Len(r.calls) THEN r
        ELSE [out |-> RepositoryError(r.calls[k]), raised |-> TRUE, U |-> U,
              user_id |-> user_id, calls |-> SubSeq(r.calls, 1, k)]

\* the repository call that fails: none, the first or the second
FaultArgs == 0..2

GetCurrentUserFailing ==
    \E token \in tokens, k \in FaultArgs :
        auth_session("get_current_user",
                     get_current_user_failing(users, token, now, k),
                     <<>>, <<>>, k, token, {}, now)

ConfirmPasswordResetFailing ==
    \E token \in tokens, new \in ConfirmPasswordArgs, k \in FaultArgs :
        auth_session("confirm_password_reset",
                     confirm_password_reset_failing(users, token, new, now, k),
                     <<>>, new, k, token, {}, now)

ChangePasswordFailing ==
    \E id \in Ids, current \in PasswordArgs, new \in NewPasswordArgs,
       k \in FaultArgs :
        auth_session("change_password",
                     change_password_failing(users, id, current, new, now, k),
                     current, new, k, NoToken, {}, now)

FaultNext ==
    \/ RegisterBob
    \/ LoginUser
    \/ ResetPassword
    \/ GetCurrentUserFailing
    \/ ConfirmPasswordResetFailing
    \/ ChangePasswordFailing

FaultSpec == AuthInit /\ [][FaultNext]_vars

\* create_comment that deletes the comment again when the post update fails
create_comment_failing_Compensates(P, C, id, blog_post_id, content, author_name, author_email, t, t2, t3, k) ==
    LET r == create_comment(P, C, id, blog_post_id, content, author_name,
                            author_email, t, t2, t3)
    IN  IF k \notin 1..Len(r.calls) THEN r
        ELSE [out |-> RepositoryError(r.calls[k]), raised |-> TRUE, P |-> P,
              C |-> C, rows |-> 0,
              calls |-> SubSeq(r.calls, 1, k)
                        \o (IF k = 4 THEN <<"comment.delete">> ELSE <<>>)]

\* create_comment: no try around its calls.  Its writes are its third call
\* (comment.create) and its fourth (blog_post.update): when the fourth
\* raises, the comment is in the session, flushed by the third
create_comment_failing(P, C, id, blog_post_id, content, author_name, author_email, t, t2, t3, k) ==
    LET r == create_comment(P, C, id, blog_post_id, content, author_name,
                            author_email, t, t2, t3)
    IN  IF k \notin 1..Len(r.calls) THEN r
        ELSE [out |-> RepositoryError(r.calls[k]), raised |-> TRUE, P |-> P,
              C |-> IF k = 4 THEN r.C ELSE C, rows |-> 0,
              calls |-> SubSeq(r.calls, 1, k)]

\* the repository call of create_comment that fails: none, or one of its four
CreateFaultArgs == 0..4

\* create_comment called by a caller that holds the session: the tables are
\* the session's, with every flush made before the use case returned or raised
CreateCommentFailing ==
    \E id \in CommentIds, post_id \in PostIdArgs,
       content \in CommentContentArgs, k \in CreateFaultArgs,
       t2 \in Later(now) :
        \E t3 \in Later(t2) :
            LET r == create_comment_failing(posts, comments, id, post_id,
                                            content, Anonymous, <<>>,
                                            now, t2, t3, k)
            IN  /\ posts' = r.P
                /\ comments' = r.C
                /\ calls' = r.calls
                /\ last' = [op |-> "create_comment", out |-> r.out,
                            post_id |-> post_id, comment_id |-> id,
                            fault |-> k]
                /\ now' = t3
                /\ UNCHANGED <<users, tokens, ent, prev>>

SessionNext ==
    \/ CreateBlogPost
    \/ CreateCommentFailing

SessionSpec == Init /\ [][SessionNext]_vars

\* CommentCreateRequest: content has min_length 1 and max_length, and is
\* stripped by its validator, which raises on a whitespace-only value
CommentCreateRequest_content(v) ==
    IF Len(v) < 1 \/ Len(v) > MaxCommentLen \/ Strip(v) = <<>>
    THEN [ok |-> FALSE, v |-> v]
    ELSE [ok |-> TRUE, v |-> Strip(v)]

\* POST /api/posts/{post_id}/comments with no author given, while the k-th
\* repository call of the use case raises
router_create_comment(P, C, id, post_id, content, t, t2, t3, k) ==
    LET vc == CommentCreateRequest_content(content)
        r  == create_comment_failing(P, C, id, post_id, vc.v, Anonymous, <<>>,
                                     t, t2, t3, k)
        status == router_except(IF r.raised THEN r.out ELSE "",
                                [x \in {"BlogPostNotFoundError"} |-> "404"]
                                @@ [x \in {"ValueError"} |-> "400"])
    IN  IF ~vc.ok
        THEN [out |-> "422", raised |-> TRUE, P |-> P, C |-> C, rows |-> 0,
              calls |-> <<>>]
        ELSE IF status # ""
        THEN [r EXCEPT !.out = status]
        ELSE [r EXCEPT !.out = "201"]

CreateCommentRequest ==
    \E id \in CommentIds, post_id \in Ids, content \in CommentContentArgs,
       k \in CreateFaultArgs, t2 \in Later(now) :
        \E t3 \in Later(t2) :
            get_session("POST /api/posts/{post_id}/comments",
                        router_create_comment(posts, comments, id, post_id,
                                              content, now, t2, t3, k),
                        post_id, id, <<content>>, t3)

RequestNext ==
    \/ CreateBlogPost
    \/ CreateCommentRequest
    \/ DeleteBlogPostRequest

RequestSpec == Init /\ [][RequestNext]_vars

(***************************************************************************)
(* update_blog_post called directly.  posts and comments are the tables as *)
(* the session of the call has flushed them, whether or not the call       *)
(* raised.                                                                 *)
(***************************************************************************)
TooLongTitle == [i \in 1..(MaxTitleLen + 1) |-> "x"]

UseCaseTitleArgs == UpdateTitleArgs \cup {<<>>, TooLongTitle}

UseCaseContentArgs == UpdateContentArgs \cup {<<>>}

UpdateBlogPost ==
    \E id \in Ids, title \in UseCaseTitleArgs, content \in UseCaseContentArgs,
       t \in Later(now) :
        \E t2 \in Later(t) :
            LET r == update_blog_post(posts, comments, id, title, content,
                                      t, t2)
            IN  /\ posts' = r.P
                /\ comments' = r.C
                /\ calls' = r.calls
                /\ last' = [op |-> "update_blog_post", out |-> r.out,
                            raised |-> r.raised, post_id |-> id,
                            text |-> <<title, content>>, e |-> r.e]
                /\ now' = t2
                /\ UNCHANGED <<users, tokens, ent, prev>>

UpdateNext ==
    \/ CreateBlogPost
    \/ UpdateBlogPost
    \/ DeleteBlogPost

UpdateSpec == Init /\ [][UpdateNext]_vars

(***************************************************************************)
(* Reading posts with their approved comments.  The queries order by       *)
(* created_at descending and take a page; rows of equal created_at come in *)
(* an order the database chooses, modelled as table order or its reverse.  *)
(***************************************************************************)
DefaultLimit == 100

Reverse(s) == [i \in 1..Len(s) |-> s[Len(s) + 1 - i]]

\* the latest created_at among rows, 0 when there is none
MaxCreatedAt(rows) ==
    IF rows = <<>> THEN 0
    ELSE CHOOSE t \in {rows[i].created_at : i \in 1..Len(rows)} :
            \A i \in 1..Len(rows) : rows[i].created_at <= t

\* ORDER BY created_at DESC over the times t, t - 1, ..., 0
RECURSIVE order_by_created_at_desc(_, _)
order_by_created_at_desc(rows, t) ==
    IF t < 0 THEN <<>>
    ELSE LET At(row) == row.created_at = t
         IN  SelectSeq(rows, At) \o order_by_created_at_desc(rows, t - 1)

\* .limit(limit).offset(offset)
limit_offset(rows, limit, offset) ==
    SubSeq(rows, offset + 1,
           IF offset + limit < Len(rows) THEN offset + limit ELSE Len(rows))

\* the page of a query; tie says how the database orders equal created_at
select_page(rows, limit, offset, tie) ==
    LET scanned == IF tie = "reverse" THEN Reverse(rows) ELSE rows
    IN  limit_offset(order_by_created_at_desc(scanned, MaxCreatedAt(rows)),
                     limit, offset)

TieArgs == {"table", "reverse"}

CommentRepo_get_approved_by_blog_post_id(C, blog_post_id, limit, offset, tie) ==
    LET Approved(row) == row.blog_post_id = blog_post_id /\ row.is_approved
        page == select_page(SelectSeq(C, Approved), limit, offset, tie)
    IN  [i \in 1..Len(page) |-> CommentModel_to_entity(page[i])]

CommentRepo_count_approved_by_blog_post_id(C, blog_post_id) ==
    LET Approved(row) == row.blog_post_id = blog_post_id /\ row.is_approved
    IN  Len(SelectSeq(C, Approved))

\* get_all: the posts as entities, newest first
BlogPostRepo_get_all(P, C, limit, offset, tie) ==
    LET Stored(id) == id \in DOMAIN P
        ids  == SelectSeq([i \in 1..MaxIds |-> i], Stored)
        rows == [i \in 1..Len(ids) |-> BlogPostModel_to_entity(P, C, ids[i])]
    IN  select_page(rows, limit, offset, tie)

get_blog_post_with_comments(P, C, blog_post_id, tie) ==
    LET g == get_blog_post_by_id(P, C, blog_post_id)
    IN  IF g.raised
        THEN [out |-> g.out, raised |-> TRUE, e |-> NoPost, comments |-> <<>>]
        ELSE [out |-> "ok", raised |-> FALSE, e |-> g.e,
              comments |-> CommentRepo_get_approved_by_blog_post_id(
                               C, blog_post_id, DefaultLimit, 0, tie)]

get_blog_posts_summary(P, C, limit, offset, tie) ==
    LET blog_posts == BlogPostRepo_get_all(P, C, limit, offset, tie)
    IN  [i \in 1..Len(blog_posts) |->
            [id |-> blog_posts[i].id, title |-> blog_posts[i].title,
             created_at |-> blog_posts[i].created_at,
             updated_at |-> blog_posts[i].updated_at,
             comment_count |->
                 CommentRepo_count_approved_by_blog_post_id(C, blog_posts[i].id)]]

\* the comments a busy post already has: approved, made at time 0
SeededComment(i) ==
    [id |-> MaxComments + i, content |-> <<"o", "k">>, blog_post_id |-> 1,
     author_name |-> Anonymous, author_email |-> <<>>, created_at |-> 0,
     updated_at |-> 0, is_approved |-> TRUE]

SeedArgs == {0, DefaultLimit - 1}

\* post 1 stored with no comments yet, or with one comment short of a page
ReadInit ==
    /\ now = 0
    /\ posts = BlogPostRepo_create(<<>>, BlogPost_new(1, <<"H", "i">>, <<"T">>,
                                                      0, 0).e).P
    /\ \E n \in SeedArgs : comments = [i \in 1..n |-> SeededComment(i)]
    /\ users = <<>> /\ calls = <<>> /\ tokens = {}
    /\ ent = [kind |-> "none"] /\ prev = [kind |-> "none"]
    /\ last = [op |-> "init", out |-> "ok", raised |-> FALSE, post_id |-> 0,
               comment_id |-> 0, rows |-> 0, text |-> <<>>, e |-> NoPost]

GetBlogPostWithComments ==
    \E id \in Ids, tie \in TieArgs :
        LET r == get_blog_post_with_comments(posts, comments, id, tie)
        IN  /\ last' = [op |-> "get_blog_post_with_comments", out |-> r.out,
                        raised |-> r.raised, post_id |-> id, e |-> r.e,
                        comments |-> r.comments]
            /\ calls' = <<"blog_post.get_by_id">>
                        \o (IF r.raised THEN <<>>
                            ELSE <<"comment.get_approved_by_blog_post_id">>)
            /\ UNCHANGED <<now, posts, comments, users, tokens, ent, prev>>

GetBlogPostsSummary ==
    \E tie \in TieArgs :
        /\ last' = [op |-> "get_blog_posts_summary", out |-> "ok",
                    raised |-> FALSE,
                    summaries |-> get_blog_posts_summary(posts, comments,
                                                         DefaultLimit, 0, tie)]
        /\ calls' = <<"blog_post.get_all">>
        /\ UNCHANGED <<now, posts, comments, users, tokens, ent, prev>>

ReadNext ==
    \/ Tick
    \/ CreateComment
    \/ ApproveComment
    \/ RejectComment
    \/ DeleteComment
    \/ DeleteBlogPost
    \/ GetBlogPostWithComments
    \/ GetBlogPostsSummary

ReadSpec == ReadInit /\ [][ReadNext]_vars

(***************************************************************************)
(* Two requests at once: create_comment and delete_blog_post on post 1,    *)
(* each in its own session and transaction, interleaved at their           *)
(* repository calls.  posts and comments are the committed tables; ent     *)
(* holds what each session has read and written but not yet committed.     *)
(* The database is PostgreSQL at its default isolation: a statement sees   *)
(* the committed rows and its own session's, the insert of a comment locks *)
(* the post its foreign key names, and a statement waits while another     *)
(* session holds a lock on the row it needs.                               *)
(***************************************************************************)
RacePost == 1

\* a create_comment session that never holds a lock on the post row
holds_post_lock_Never(cc) == FALSE

\* the create_comment session holds a lock on the post row: through the
\* foreign key of the comment it inserted, or through its update of the row
holds_post_lock(cc) == cc.ins # <<>> \/ cc.upd # <<>>

\* INSERT INTO comments under the foreign key to blog_posts.id: it waits for
\* a session that has deleted the post and not yet ended, and fails when the
\* post is not there
insert_comment(P, post_deleted, row) ==
    IF post_deleted THEN "wait"
    ELSE IF row.blog_post_id \notin DOMAIN P THEN "CommentRepositoryError"
    ELSE "ok"

\* UPDATE blog_posts of a row the session loaded: it waits like the insert,
\* and the flush fails when the row it expects is gone
update_post(P, post_deleted, id) ==
    IF post_deleted THEN "wait"
    ELSE IF id \notin DOMAIN P THEN "BlogPostRepositoryError"
    ELSE "ok"

\* the ids of the comments a DELETE for the post finds
CommentIdsOfPost(C, id) ==
    {C[i].id : i \in {j \in 1..Len(C) : C[j].blog_post_id = id}}

RaceInit ==
    /\ now = 0
    /\ posts = BlogPostRepo_create(<<>>, BlogPost_new(RacePost, <<"H", "i">>,
                                                      <<"T">>, 0, 0).e).P
    /\ \E n \in 0..1 : comments = [i \in 1..n |-> SeededComment(i)]
    /\ users = <<>> /\ calls = <<>> /\ tokens = {}
    /\ \E id \in CommentIds, content \in CommentContentArgs :
          ent = [kind |-> "sessions",
                 cc |-> [pc |-> "get_by_id", id |-> id, content |-> content,
                         e |-> NoPost, comment |-> <<>>, ins |-> <<>>,
                         upd |-> <<>>, out |-> ""],
                 dp |-> [pc |-> "exists", rows |-> 0, cascaded |-> 0,
                         delc |-> {}, delp |-> FALSE, out |-> ""]]
    /\ prev = [kind |-> "none"]
    /\ last = [op |-> "init", out |-> "ok"]

\* one step of a session: the sessions afterwards, the committed tables
\* (changed by a commit only) and the time
RaceStep(op, cc, dp, P, C, t) ==
    /\ ent' = [ent EXCEPT !.cc = cc, !.dp = dp]
    /\ posts' = P
    /\ comments' = C
    /\ last' = [op |-> op, out |-> "ok"]
    /\ calls' = Append(calls, op)
    /\ now' = t
    /\ UNCHANGED <<users, tokens, prev>>

\* an exception leaves the use case, and get_session rolls back
rolled_back(cc, out) ==
    [cc EXCEPT !.pc = "done", !.ins = <<>>, !.upd = <<>>, !.out = out]

\* create_comment: the post is read, then the Comment is made
Create_get_by_id ==
    /\ ent.cc.pc = "get_by_id"
    /\ \E t2 \in Later(now) :
        LET g == BlogPostRepo_get_by_id(posts, comments, RacePost)
            n == Comment_new(ent.cc.id, ent.cc.content, RacePost, Anonymous,
                             <<>>, now, t2)
        IN  RaceStep("create_comment: blog_post.get_by_id",
                     IF ~g.found
                     THEN rolled_back(ent.cc, "BlogPostNotFoundError")
                     ELSE IF n.out # "ok"
                     THEN rolled_back(ent.cc, "ValueError")
                     ELSE [ent.cc EXCEPT !.pc = "exists", !.e = g.e,
                                         !.comment = <<n.e>>],
                     ent.dp, posts, comments, t2)

Create_exists ==
    /\ ent.cc.pc = "exists"
    /\ RaceStep("create_comment: comment.exists",
                IF CommentRepo_exists(comments, ent.cc.id)
                THEN rolled_back(ent.cc, "DuplicateCommentError")
                ELSE [ent.cc EXCEPT !.pc = "create"],
                ent.dp, posts, comments, now)

Create_create ==
    /\ ent.cc.pc = "create"
    /\ LET row == CommentModel_from_entity(ent.cc.comment[1])
           r   == IF CommentRepo_exists(comments, ent.cc.id)
                  THEN "DuplicateCommentError"
                  ELSE insert_comment(posts, ent.dp.delp, row)
       IN  /\ r # "wait"
           /\ RaceStep("create_comment: comment.create",
                       IF r # "ok" THEN rolled_back(ent.cc, r)
                       ELSE [ent.cc EXCEPT !.pc = "update", !.ins = <<row>>],
                       ent.dp, posts, comments, now)

Create_update ==
    /\ ent.cc.pc = "update"
    /\ \E t3 \in Later(now) :
        LET a == BlogPost_add_comment_id(ent.cc.e, ent.cc.id, t3)
            r == update_post(posts, ent.dp.delp, RacePost)
        IN  /\ r # "wait"
            /\ RaceStep("create_comment: blog_post.update",
                        IF a.out # "ok" THEN rolled_back(ent.cc, "ValueError")
                        ELSE IF r # "ok" THEN rolled_back(ent.cc, r)
                        ELSE [ent.cc EXCEPT
                                 !.pc = "commit",
                                 !.upd = <<BlogPostModel_update_from_entity(
                                               posts[RacePost], a.e)>>],
                        ent.dp, posts, comments, t3)

Create_commit ==
    /\ ent.cc.pc = "commit"
    /\ RaceStep("create_comment: commit",
                [ent.cc EXCEPT !.pc = "done", !.ins = <<>>, !.upd = <<>>,
                               !.out = "ok"],
                ent.dp,
                IF RacePost \in DOMAIN posts
                THEN [posts EXCEPT ![RacePost] = ent.cc.upd[1]] ELSE posts,
                comments \o ent.cc.ins, now)

Delete_exists ==
    /\ ent.dp.pc = "exists"
    /\ RaceStep("delete_blog_post: blog_post.exists", ent.cc,
                IF BlogPostRepo_exists(posts, RacePost)
                THEN [ent.dp EXCEPT !.pc = "delete_by_blog_post_id"]
                ELSE [ent.dp EXCEPT !.pc = "done", !.out = "False"],
                posts, comments, now)

\* DELETE FROM comments WHERE blog_post_id: the committed comments of the post
Delete_delete_by_blog_post_id ==
    /\ ent.dp.pc = "delete_by_blog_post_id"
    /\ RaceStep("delete_blog_post: comment.delete_by_blog_post_id", ent.cc,
                [ent.dp EXCEPT
                    !.pc = "delete",
                    !.delc = CommentIdsOfPost(comments, RacePost),
                    !.rows = Cardinality(CommentIdsOfPost(comments, RacePost))],
                posts, comments, now)

\* session.delete of the post: it waits while the other session holds a lock
\* on the row; the comments committed since go with it (cascade)
Delete_delete ==
    /\ ent.dp.pc = "delete"
    /\ ~holds_post_lock(ent.cc)
    /\ RaceStep("delete_blog_post: blog_post.delete", ent.cc,
                IF ~BlogPostRepo_exists(posts, RacePost)
                THEN [ent.dp EXCEPT !.pc = "commit", !.out = "False"]
                ELSE [ent.dp EXCEPT
                        !.pc = "commit", !.delp = TRUE, !.out = "True",
                        !.delc = @ \cup CommentIdsOfPost(comments, RacePost),
                        !.cascaded = Cardinality(
                            CommentIdsOfPost(comments, RacePost) \ ent.dp.delc)],
                posts, comments, now)

Delete_commit ==
    /\ ent.dp.pc = "commit"
    /\ LET Kept(row) == row.id \notin ent.dp.delc
       IN  RaceStep("delete_blog_post: commit", ent.cc,
                    [ent.dp EXCEPT !.pc = "done", !.delp = FALSE, !.delc = {}],
                    IF ent.dp.delp
                    THEN [i \in DOMAIN posts \ {RacePost} |-> posts[i]]
                    ELSE posts,
                    SelectSeq(comments, Kept), now)

RaceNext ==
    \/ Create_get_by_id
    \/ Create_exists
    \/ Create_create
    \/ Create_update
    \/ Create_commit
    \/ Delete_exists
    \/ Delete_delete_by_blog_post_id
    \/ Delete_delete
    \/ Delete_commit

RaceSpec == RaceInit /\ [][RaceNext]_vars

(***************************************************************************)
(* The token manager on its own: a claims set is made into a token, the    *)
(* token is decoded as time passes.                                        *)
(***************************************************************************)
ClaimsArgs ==
    {{},
     {<<"sub", str_UUID(1)>>},
     {<<"sub", str_UUID(2)>>, <<"username", Bob>>, <<"is_superuser", FALSE>>},
     {<<"user_id", str_UUID(1)>>},
     {<<"sub", str_UUID(1)>>, <<"type", "reset">>},
     {<<"user_id", str_UUID(2)>>, <<"exp", 0>>}}

TokenManagerInit ==
    /\ now = 0
    /\ posts = <<>> /\ comments = <<>> /\ users = <<>> /\ calls = <<>>
    /\ tokens = {}
    /\ \E data \in ClaimsArgs :
          ent = [kind |-> "claims", data |-> data, token |-> NoToken,
                 issued_at |-> 0]
    /\ prev = [kind |-> "none"]
    /\ last = [op |-> "init", out |-> "ok", payload |-> {}, t |-> 0]

\* r is what the call returned
TokenManagerCall(op, r) ==
    /\ last' = [op |-> op, out |-> r.out,
                payload |-> IF r.out = "ok" THEN r.payload ELSE {}, t |-> now]
    /\ UNCHANGED <<now, posts, comments, users, calls, tokens, prev>>

Call_create_access_token ==
    /\ ent.kind = "claims"
    /\ ent' = [ent EXCEPT
                  !.kind = "access", !.issued_at = now,
                  !.token = TokenManager_create_access_token(ent.data, now)]
    /\ TokenManagerCall("create_access_token", [out |-> "made"])

Call_create_reset_token ==
    /\ ent.kind = "claims"
    /\ ent' = [ent EXCEPT !.kind = "reset", !.issued_at = now,
                          !.token = create_reset_token(ent.data, now)]
    /\ TokenManagerCall("create_reset_token", [out |-> "made"])

Call_decode_token ==
    /\ ent.kind # "claims"
    /\ TokenManagerCall("decode_token", decode_token(ent.token, now))
    /\ UNCHANGED ent

Call_decode_reset_token ==
    /\ ent.kind # "claims"
    /\ TokenManagerCall("decode_reset_token",
                        decode_reset_token(ent.token, now))
    /\ UNCHANGED ent

TokenManagerNext ==
    \/ Elapse
    \/ Call_create_access_token
    \/ Call_create_reset_token
    \/ Call_decode_token
    \/ Call_decode_reset_token

TokenManagerSpec == TokenManagerInit /\ [][TokenManagerNext]_vars

(***************************************************************************)
(* Claims about the entities.                                              *)
(***************************************************************************)
C4_Mutators ==
    {"BlogPost.update_title", "BlogPost.update_content",
     "BlogPost.add_comment_id", "BlogPost.remove_comment_id",
     "Comment.update_content", "Comment.update_author_info",
     "User.update_username", "User.update_email",
     "User.update_password_hash", "User.update_full_name",
     "User.make_superuser"}

\* What a mutator call that applies its change leaves: the entity as it was,
\* with the field set to the (normalised) argument and updated_at refreshed.
C4_Applied(op, args, before, t) ==
    CASE op = "BlogPost.update_title" ->
            [before EXCEPT !.title = args[1], !.updated_at = t]
      [] op \in {"BlogPost.update_content", "Comment.update_content"} ->
            [before EXCEPT !.content = args[1], !.updated_at = t]
      [] op = "BlogPost.add_comment_id" ->
            [before EXCEPT !.comment_ids = Append(@, args[1]), !.updated_at = t]
      [] op = "BlogPost.remove_comment_id" ->
            [before EXCEPT !.comment_ids = RemoveFirst(@, args[1]),
                           !.updated_at = t]
      [] op = "Comment.update_author_info" ->
            [before EXCEPT
                !.author_name = IF args[1] = NoneVal THEN @ ELSE args[1],
                !.author_email = IF args[2] = NoneVal THEN @ ELSE args[2],
                !.updated_at = t]
      [] op = "User.update_username" ->
            [before EXCEPT !.username = Strip(args[1]), !.updated_at = t]
      [] op = "User.update_email" ->
            [before EXCEPT !.email = ToLower(Strip(args[1])), !.updated_at = t]
      [] op = "User.update_password_hash" ->
            [before EXCEPT !.password_hash = args[1], !.updated_at = t]
      [] op = "User.update_full_name" ->
            [before EXCEPT !.full_name = NormFullName(args[1]), !.updated_at = t]
      [] op = "User.make_superuser" ->
            [before EXCEPT !.is_superuser = TRUE, !.updated_at = t]

\* C4 as stated: every validated mutator call either applies the change and
\* refreshes updated_at, or raises a validation failure and leaves every field
\* of the entity, updated_at included, as it was before the call.
C4_ApplyOrRollback_Original ==
    last.op \in C4_Mutators =>
        \/ /\ last.out = "ok"
           /\ ent.e = C4_Applied(last.op, last.args, prev, last.t)
        \/ /\ last.out = "ValueError"
           /\ ent.e = prev

\* C4 as amended: the same, except that make_superuser on an active user who
\* already is a superuser returns normally and changes nothing, updated_at
\* included.
C4_ApplyOrRollback ==
    last.op \in C4_Mutators =>
        \/ /\ last.out = "ok"
           /\ ent.e = C4_Applied(last.op, last.args, prev, last.t)
        \/ /\ last.out = "ValueError"
           /\ ent.e = prev
        \/ /\ last.op = "User.make_superuser"
           /\ last.out = "ok"
           /\ prev.is_active /\ prev.is_superuser
           /\ ent.e = prev

\* C4's case: update_author_info with a valid new name and an invalid email has
\* raised, at a time later than the entity's last refresh.
C4_Witness ==
    /\ last.op = "Comment.update_author_info"
    /\ last.out = "ValueError"
    /\ last.args = <<(<<"B", "o">>), (<<"b", "o", "b">>)>>
    /\ prev.author_name # <<"B", "o">>
    /\ last.t > prev.updated_at

\* C5 as stated: for a user constructed with the default flags, after any
\* sequence of activate, deactivate, make_superuser and remove_superuser calls,
\* is_superuser implies is_active.
C5_SuperuserImpliesActive ==
    ent.kind = "user" => (ent.e.is_superuser => ent.e.is_active)

(***************************************************************************)
(* Claims about the blog post and comment use cases.                       *)
(***************************************************************************)
\* The comment-id list of the stored post id, as the repository returns it
StoredCommentIds(id) == BlogPostRepo_get_by_id(posts, comments, id).e.comment_ids

Occurrences(s, x) == Cardinality({k \in 1..Len(s) : s[k] = x})

\* C1: after any sequence of completed create_blog_post, create_comment,
\* delete_comment and delete_blog_post calls, every stored comment's
\* blog_post_id names a stored post, and that post's comment-id list contains
\* the comment's id exactly once.
C1_CommentsListedOnce ==
    \A i \in 1..Len(comments) :
        /\ comments[i].blog_post_id \in DOMAIN posts
        /\ Occurrences(StoredCommentIds(comments[i].blog_post_id),
                       comments[i].id) = 1

\* two comments of one post are stored, after a comment was created and
\* another deleted
C1_Witness ==
    /\ last.op = "create_comment" /\ last.out = "ok"
    /\ Len(comments) = 2
    /\ comments[1].blog_post_id = comments[2].blog_post_id
    /\ comments[1].id > comments[2].id

OfPost(C, id) == Cardinality({k \in 1..Len(C) : C[k].blog_post_id = id})

\* C2: delete_blog_post on a stored post that owns N comments (approved or
\* not) removes the N comments and the post and returns true, leaving the
\* other posts and their comments unchanged; on an id that is not stored (as
\* after the first delete) it returns false and changes no stored state.
C2_DeletePost ==
    [][(now' = now /\ last'.op = "delete_blog_post") =>
        IF last'.post_id \in DOMAIN posts
        THEN /\ last'.out = "True"
             /\ last'.rows = OfPost(comments, last'.post_id)
             /\ DOMAIN posts' = DOMAIN posts \ {last'.post_id}
             /\ \A j \in DOMAIN posts' : posts'[j] = posts[j]
             /\ \A k \in 1..Len(comments') :
                    comments'[k].blog_post_id # last'.post_id
             /\ comments' =
                    SelectSeq(comments,
                              LAMBDA row : row.blog_post_id # last'.post_id)
        ELSE /\ last'.out = "False"
             /\ posts' = posts
             /\ comments' = comments]_vars

\* a post owning two comments was deleted while the other post stayed
C2_Witness ==
    /\ last.op = "delete_blog_post" /\ last.out = "True"
    /\ last.rows = 2
    /\ DOMAIN posts # {}
    /\ last.post_id \notin DOMAIN posts
    /\ calls = <<"blog_post.exists", "comment.delete_by_blog_post_id",
                 "blog_post.delete">>

\* C3: create_comment with a post id that is not stored fails with
\* BlogPostNotFoundError, and the stored comments and every stored post are
\* as they were before the call.
C3_CreateCommentNoPost ==
    [][(now' = now /\ last'.op = "create_comment"
            /\ last'.post_id \notin DOMAIN posts) =>
        /\ last'.out = "BlogPostNotFoundError"
        /\ comments' = comments
        /\ posts' = posts]_vars

\* a comment for a post id that is not stored was refused while another post
\* and its comment are stored
C3_Witness ==
    /\ last.op = "create_comment" /\ last.out = "BlogPostNotFoundError"
    /\ last.post_id \in Ids \ DOMAIN posts
    /\ Len(comments) > 0
    /\ DOMAIN posts # {}

(***************************************************************************)
(* Claims about the authentication use cases.                              *)
(***************************************************************************)
\* the stored users a login identifier names: by username as given, by email
\* whatever the case of its letters
Named(U, identifier) ==
    {i \in DOMAIN U : U[i].username = identifier
                        \/ U[i].email = ToLower(identifier)}

\* C6: authenticate_user returns the user if and only if a stored user
\* matches the identifier by username or by email, is active and the password
\* verifies against the stored hash; otherwise (unknown identifier, wrong
\* password, inactive user) it returns the one value None, raises nothing and
\* changes no stored state.
C6_Authenticate ==
    [][(now' = now /\ last'.op = "authenticate_user") =>
        LET ok == {i \in Named(users, last'.a) :
                      /\ users[i].is_active
                      /\ verify_password(last'.b, users[i].password_hash)}
        IN  /\ last'.out \in {"user", "None"}
            /\ (last'.out = "user") <=> (ok # {})
            /\ (last'.out = "user") => (last'.user_id \in ok)
            /\ (last'.out = "None") => (last'.user_id = 0)
            /\ users' = users
            /\ tokens' = tokens]_vars

\* a login with the right password for a deactivated user got None, and so
\* would a login with a wrong password for the active user
C6_Witness ==
    /\ last.op = "authenticate_user" /\ last.out = "None"
    /\ \E i \in Named(users, last.a) :
          /\ ~users[i].is_active
          /\ verify_password(last.b, users[i].password_hash)
    /\ \E j \in DOMAIN users : users[j].is_active

\* C7: register_user with a strong password and the username of a stored user
\* fails with DuplicateUserError tagged "username" (also when the email
\* collides too); with a new username and the email of a stored user it fails
\* with DuplicateUserError tagged "email"; no user is added.
C7_RegisterDuplicate ==
    [][(now' = now /\ last'.op = "register_user"
            /\ validate_password_strength(last'.c)) =>
        LET nameTaken  == \E i \in DOMAIN users : users[i].username = last'.a
            emailTaken == \E i \in DOMAIN users : users[i].email = last'.b
        IN  /\ nameTaken =>
                (last'.out = "DuplicateUserError.username" /\ users' = users)
            /\ (~nameTaken /\ emailTaken) =>
                (last'.out = "DuplicateUserError.email" /\ users' = users)]_vars

\* a registration whose username and email are both taken, by two different
\* users, was refused for its username
C7_Witness ==
    /\ last.op = "register_user"
    /\ last.out = "DuplicateUserError.username"
    /\ \E i, j \in DOMAIN users :
          i # j /\ users[i].username = last.a /\ users[j].email = last.b

\* C8: register_user with a password that fails the strength rule raises the
\* validation failure before any repository call: no lookup, no create, and
\* not DuplicateUserError even when the username or the email is taken.
C8_WeakPasswordFirst ==
    [][(now' = now /\ last'.op = "register_user"
            /\ ~validate_password_strength(last'.c)) =>
        /\ last'.out = "ValueError"
        /\ calls' = <<>>
        /\ users' = users]_vars

\* a registration with a weak password and a taken username and email
C8_Witness ==
    /\ last.op = "register_user" /\ last.out = "ValueError"
    /\ ~validate_password_strength(last.c)
    /\ calls = <<>>
    /\ \E i \in DOMAIN users :
          users[i].username = last.a /\ users[i].email = last.b

\* C9: change_password reports the first failing check in the order: user
\* absent, current password wrong, new password weak, new password equal to
\* the current one; in each failure every stored user is unchanged.
C9_ChangePasswordOrder ==
    [][(now' = now /\ last'.op = "change_password") =>
        LET id == last'.user_id
            expected ==
                IF id \notin DOMAIN users THEN "UserNotFoundError"
                ELSE IF ~verify_password(last'.a, users[id].password_hash)
                THEN "ValueError: Current password is incorrect"
                ELSE IF ~validate_password_strength(last'.b)
                THEN "ValueError: strength"
                ELSE IF verify_password(last'.b, users[id].password_hash)
                THEN "ValueError: New password must be different"
                ELSE "True"
        IN  /\ last'.out = expected
            /\ (expected # "True") => (users' = users)]_vars

\* the current password was wrong and the new one weak: the current password
\* is the failure reported
C9_Witness ==
    /\ last.op = "change_password"
    /\ last.out = "ValueError: Current password is incorrect"
    /\ ~validate_password_strength(last.b)
    /\ last.user_id \in DOMAIN users

\* C10: after a successful change_password on an active user, and after a
\* successful confirm_password_reset with a new password that differs from
\* the old one, authenticate_user with the new password returns that user and
\* with the former password returns None.
C10_NewPasswordOnly ==
    [][(now' = now /\ last'.op \in {"change_password", "confirm_password_reset"}
            /\ last'.out = "True" /\ users[last'.user_id].is_active) =>
        \A ident \in {users'[last'.user_id].username,
                      users'[last'.user_id].email} :
            /\ authenticate_user(users', ident, last'.b).out = "user"
            /\ authenticate_user(users', ident, last'.b).user_id = last'.user_id
            /\ \A old \in PasswordArgs \cup NewPasswordArgs :
                  (/\ old # last'.b
                   /\ verify_password(old, users[last'.user_id].password_hash))
                  => authenticate_user(users', ident, old).out = "None"]_vars

\* an active user's password was changed from PwA to PwB
C10_Witness ==
    /\ last.op = "change_password" /\ last.out = "True"
    /\ last.a = PwA /\ last.b = PwB
    /\ users[last.user_id].is_active
    /\ Cardinality(DOMAIN users) = 2

(***************************************************************************)
(* Claims about tokens and password resets.                                *)
(***************************************************************************)
\* the stored active users with the email, whatever the case of its letters
ActiveByEmail(U, email) ==
    {i \in DOMAIN U : U[i].email = ToLower(email) /\ U[i].is_active}

\* the user id a signed token carries under the key
Bearer(token, key) == UUID_parse(Get(token.payload, key)).id

\* the token is signed with the key, carries the type and has not expired at t
Valid(token, type, t) ==
    /\ token.signed
    /\ Get(token.payload, "type") = type
    /\ Get(token.payload, "exp") >= t

\* C11: reset_password returns success for every email, whether it matches
\* an active user, an inactive user or no user, and leaves every stored user
\* unchanged; a reset token is made only when the email matches an active
\* user, and then for that user.
C11_ResetPasswordSilent ==
    [][(now' = now /\ last'.op = "reset_password") =>
        LET m == ActiveByEmail(users, last'.a)
        IN  /\ last'.out = "True"
            /\ users' = users
            /\ \A tk \in tokens' \ tokens :
                  Valid(tk, "reset", now) /\ Bearer(tk, "user_id") \in m
            /\ (m = {}) => (tokens' = tokens /\ last'.user_id = 0)
            /\ (m # {}) =>
                  \E tk \in tokens' :
                      /\ Valid(tk, "reset", now + reset_token_expire_minutes)
                      /\ Bearer(tk, "user_id") \in m
                      /\ last'.user_id = Bearer(tk, "user_id")]_vars

\* a reset was asked for the email of a deactivated user while another user
\* is active: success, and no token
C11_Witness ==
    /\ last.op = "reset_password" /\ last.out = "True"
    /\ tokens = {}
    /\ \E i \in DOMAIN users :
          users[i].email = ToLower(last.a) /\ ~users[i].is_active
    /\ \E j \in DOMAIN users : users[j].is_active

\* C12: confirm_password_reset fails with the one failure "invalid or expired
\* reset token" for every cause (bad signature, expired token, token of the
\* wrong type, user absent, user inactive, new password failing the strength
\* rule), and in every failing case the stored users, password hashes
\* included, are unchanged.
C12_ConfirmOneFailure ==
    [][(now' = now /\ last'.op = "confirm_password_reset") =>
        LET tk == last'.token
            id == Bearer(tk, "user_id")
            cause ==
                \/ ~tk.signed
                \/ Get(tk.payload, "exp") < now
                \/ Get(tk.payload, "type") # "reset"
                \/ id \notin DOMAIN users
                \/ ~users[id].is_active
                \/ ~validate_password_strength(last'.b)
        IN  /\ last'.out \in {"True", InvalidResetToken}
            /\ cause => last'.out = InvalidResetToken
            /\ (last'.out = InvalidResetToken) => (users' = users)]_vars

\* a reset token past its expiry, for a stored active user and with a strong
\* new password, was turned down
C12_Witness ==
    /\ last.op = "confirm_password_reset" /\ last.out = InvalidResetToken
    /\ last.token.signed
    /\ Get(last.token.payload, "type") = "reset"
    /\ Get(last.token.payload, "exp") < now
    /\ Bearer(last.token, "user_id") \in DOMAIN users
    /\ users[Bearer(last.token, "user_id")].is_active
    /\ validate_password_strength(last.b)

\* C13: a reset token authorizes a single password reset: when
\* confirm_password_reset has succeeded with a token, a later
\* confirm_password_reset with the same token fails, even before the token's
\* expiry.
C13_ResetTokenSingleUse ==
    [][(/\ now' = now
        /\ last.op = "confirm_password_reset" /\ last.out = "True"
        /\ last'.op = "confirm_password_reset"
        /\ last'.token = last.token) =>
        last'.out # "True"]_vars

\* C14: a token is accepted only by the decoder of its own type: an
\* unexpired, signed access token is turned down by decode_reset_token, so
\* confirm_password_reset fails and changes no password; an unexpired, signed
\* reset token is turned down by decode_token, so get_current_user yields no
\* user; both rejections are TokenInvalidError.
C14_TypeTagSeparates ==
    [][(now' = now) =>
        /\ (last'.op = "confirm_password_reset"
                /\ Valid(last'.token, "access", now)) =>
              /\ decode_reset_token(last'.token, now).out = "TokenInvalidError"
              /\ decode_token(last'.token, now).out = "ok"
              /\ last'.out = InvalidResetToken
              /\ users' = users
        /\ (last'.op = "get_current_user"
                /\ Valid(last'.token, "reset", now)) =>
              /\ decode_token(last'.token, now).out = "TokenInvalidError"
              /\ decode_reset_token(last'.token, now).out = "ok"
              /\ last'.out = "None"]_vars

\* the access token of a stored active user was offered, with a strong
\* password, as a reset token
C14_Witness ==
    /\ last.op = "confirm_password_reset" /\ last.out = InvalidResetToken
    /\ Valid(last.token, "access", now)
    /\ Bearer(last.token, "sub") \in DOMAIN users
    /\ users[Bearer(last.token, "sub")].is_active
    /\ validate_password_strength(last.b)

\* C16: an access token issued to an active user before a successful
\* change_password or confirm_password_reset still resolves to that user
\* through get_current_user, while the user is stored and active, at every
\* later time up to the token's expiry.  (Every login here is with PwA: a
\* user whose hash is no longer PwA's has changed password since.)
C16_TokenSurvivesPasswordChange ==
    [][(/\ now' = now
        /\ last'.op = "get_current_user"
        /\ Valid(last'.token, "access", now)
        /\ Bearer(last'.token, "sub") \in DOMAIN users
        /\ users[Bearer(last'.token, "sub")].is_active
        /\ ~verify_password(PwA, users[Bearer(last'.token, "sub")].password_hash))
        =>
        /\ last'.out = "user"
        /\ last'.user_id = Bearer(last'.token, "sub")]_vars

\* an access token resolved to its user at the last minute of its window,
\* after the user's password had been changed
C16_Witness ==
    /\ last.op = "get_current_user" /\ last.out = "user"
    /\ Valid(last.token, "access", now)
    /\ Get(last.token.payload, "exp") = now
    /\ ~verify_password(PwA, users[last.user_id].password_hash)

\* C17: get_current_user returns a user if and only if the token decodes as
\* an unexpired access token and the user with the id it carries is stored
\* and active at the time of the call; once that user is deactivated or
\* deleted the same unexpired token yields no user; the call never raises
\* and writes nothing.
C17_CurrentUser ==
    [][(now' = now /\ last'.op = "get_current_user") =>
        LET tk == last'.token
            id == Bearer(tk, "sub")
            ok == /\ Valid(tk, "access", now)
                  /\ id \in DOMAIN users
                  /\ users[id].is_active
        IN  /\ last'.out \in {"user", "None"}
            /\ (last'.out = "user") <=> ok
            /\ (last'.out = "user") => (last'.user_id = id)
            /\ users' = users]_vars

\* an unexpired access token whose user has been deleted yielded no user
C17_Witness ==
    /\ last.op = "get_current_user" /\ last.out = "None"
    /\ Valid(last.token, "access", now)
    /\ Bearer(last.token, "sub") \notin DOMAIN users
    /\ IsUUID(Bearer(last.token, "sub"))

\* the decoder and the window of a token type
DecoderOf(type) ==
    IF type = "access" THEN "decode_token" ELSE "decode_reset_token"

WindowOf(type) ==
    IF type = "access" THEN access_token_expire_minutes
    ELSE reset_token_expire_minutes

\* the decoder of the token's type returned the claims the token was made
\* from: each claim with its value, the subject id among them
Recovered ==
    /\ last.out = "ok"
    /\ \A item \in ent.data : item \in last.payload
    /\ Get(last.payload, "sub") = Get(ent.data, "sub")
    /\ Get(last.payload, "user_id") = Get(ent.data, "user_id")

\* the claims set uses a key the token manager sets itself
Reserved(data) == \E item \in data : item[1] \in {"exp", "type"}

RowOf(C, id) == C[CommentIndex(C, id)]

\* the comment is stored in C2 as it is in C, but for the approval state
\* flag and the time of the change
Moderated(C, C2, id, flag) ==
    /\ CommentRepo_exists(C2, id)
    /\ RowOf(C2, id).is_approved = flag
    /\ [RowOf(C2, id) EXCEPT !.is_approved = RowOf(C, id).is_approved,
                             !.updated_at = RowOf(C, id).updated_at]
          = RowOf(C, id)

\* C18: moderate_comments_batch with a valid action applies the action to the
\* ids in list order; if the k-th id is the first one not stored, the call
\* fails with CommentNotFoundError, the comments named by the first k-1 ids
\* keep the new approval state in the store, and every other comment, those
\* named by later ids included, is untouched; with an action other than
\* "approve" or "reject" it fails before any comment is read or changed.
C18_ModerateBatch ==
    [][(now' = now /\ last'.op = "moderate_comments_batch") =>
        LET ids  == last'.comment_ids
            flag == last'.action = "approve"
            missing == {k \in 1..Len(ids) : ~CommentRepo_exists(comments, ids[k])}
            done == IF missing = {} THEN Len(ids)
                    ELSE (CHOOSE k \in missing : \A j \in missing : k <= j) - 1
            touched == {ids[j] : j \in 1..done}
        IN  IF last'.action \notin {"approve", "reject"}
            THEN /\ last'.out = "ValueError"
                 /\ calls' = <<>>
                 /\ comments' = comments /\ posts' = posts
            ELSE /\ last'.out = IF missing = {} THEN "ok"
                                ELSE "CommentNotFoundError"
                 /\ Len(comments') = Len(comments)
                 /\ posts' = posts
                 /\ \A i \in 1..Len(comments) :
                       IF comments[i].id \in touched
                       THEN Moderated(comments, comments', comments[i].id, flag)
                       ELSE comments'[i] = comments[i]]_vars

\* a batch that rejected its first id, did not find its second and so left
\* its third, a stored approved comment, approved
C18_Witness ==
    /\ last.op = "moderate_comments_batch"
    /\ last.out = "CommentNotFoundError"
    /\ last.action = "reject"
    /\ Len(last.comment_ids) = 3
    /\ CommentRepo_exists(comments, last.comment_ids[1])
    /\ ~RowOf(comments, last.comment_ids[1]).is_approved
    /\ ~CommentRepo_exists(comments, last.comment_ids[2])
    /\ CommentRepo_exists(comments, last.comment_ids[3])
    /\ RowOf(comments, last.comment_ids[3]).is_approved

\* the table of posts without the post
WithoutPost(P, id) == [i \in DOMAIN P \ {id} |-> P[i]]

\* the ids a post lists
ListedIds(P, C, id) == BlogPostModel_to_entity(P, C, id).comment_ids

\* C19: delete_comment returns False and changes nothing when no such
\* comment is stored; otherwise it removes the comment row and the comment's
\* id from the owning post's list and returns True; and it still deletes the
\* comment and returns True when the owning post is missing.  (The post's
\* list is read from the comment rows, so it cannot lack a stored comment's
\* id.)
C19_DeleteComment ==
    [][(now' = now /\ last'.op = "delete_comment") =>
        LET id == last'.comment_id
        IN  IF ~CommentRepo_exists(comments, id)
            THEN /\ last'.out = "False"
                 /\ comments' = comments /\ posts' = posts
            ELSE LET owner == RowOf(comments, id).blog_post_id
                     Others(row) == row.id # id
                     orphan == delete_comment(WithoutPost(posts, owner),
                                              comments, id, now)
                 IN  /\ last'.out = "True"
                     /\ comments' = SelectSeq(comments, Others)
                     /\ DOMAIN posts' = DOMAIN posts
                     /\ \A i \in DOMAIN posts :
                           i # owner => posts'[i] = posts[i]
                     /\ InSeq(id, ListedIds(posts, comments, owner))
                     /\ ListedIds(posts', comments', owner)
                           = RemoveFirst(ListedIds(posts, comments, owner), id)
                     /\ orphan.out = "True" /\ ~orphan.raised
                     /\ orphan.C = SelectSeq(comments, Others)]_vars

\* the first of a post's two comments was deleted: the post lists the other
C19_Witness ==
    /\ last.op = "delete_comment" /\ last.out = "True"
    /\ ~CommentRepo_exists(comments, last.comment_id)
    /\ \E i \in DOMAIN posts :
          /\ Len(ListedIds(posts, comments, i)) = 1
          /\ ListedIds(posts, comments, i)[1] > last.comment_id
          /\ posts[i].updated_at > posts[i].created_at

\* C20: for every valid (title, content) pair, create_blog_post followed by
\* get_blog_post_by_id on the returned id yields a post with the same title
\* and content and with created_at equal to updated_at.
C20_CreateThenGet ==
    [][(/\ now' = now
        /\ last.op = "create_blog_post" /\ last.out = "ok"
        /\ last'.op = "get_blog_post_by_id"
        /\ last'.post_id = last.post_id) =>
        /\ last'.out = "ok"
        /\ last'.e.id = last.post_id
        /\ last'.e.title = last.text[1]
        /\ last'.e.content = last.text[2]
        /\ last'.e.created_at = last'.e.updated_at]_vars

(***************************************************************************)
(* Claims about timestamps, failures and the session.                      *)
(***************************************************************************)
\* C21: with a non-decreasing clock, the BlogPost, Comment or User held in
\* memory has updated_at >= created_at when it is constructed and after every
\* mutator call, whether the call succeeded or raised, and no call changes
\* created_at.
C21_TimestampsMonotonic ==
    /\ ent.e.updated_at >= ent.e.created_at
    /\ [][/\ ent'.e.updated_at >= ent'.e.created_at
          /\ ent'.e.created_at = ent.e.created_at]_vars

\* C21's case: a mutator call raised, after the clock had advanced, on an
\* entity whose updated_at is later than its created_at.
C21_Witness ==
    /\ last.out = "ValueError"
    /\ prev.updated_at > prev.created_at
    /\ ent.e.updated_at = last.t
    /\ last.t > 0

\* C22: in get_current_user, confirm_password_reset and change_password, a
\* RepositoryError raised by a repository call reaches the caller as that
\* RepositoryError: not a normal return value, not another failure kind.
C22_RepositoryErrorPropagates ==
    (/\ last.op \in {"get_current_user", "confirm_password_reset",
                     "change_password"}
     /\ Len(calls) >= 1
     /\ last.c = Len(calls))
        => last.out = RepositoryError(calls[Len(calls)])

\* C23: DELETE /api/posts/{id} answers 204 when the post existed and 404 when
\* it did not, and PUT /api/posts/{id} with neither title nor content answers
\* 400.
C23_DocumentedStatus ==
    [][/\ last'.op = "DELETE /api/posts/{post_id}" =>
            last'.out = IF last'.post_id \in DOMAIN posts THEN "204" ELSE "404"
       /\ (/\ last'.op = "PUT /api/posts/{post_id}"
           /\ last'.text = <<NoneVal, NoneVal>>) => last'.out = "400"]_vars

\* create_comment has persisted the comment and its post update has raised
UpdateFailed ==
    /\ last'.op = "create_comment"
    /\ last'.fault = 4
    /\ Len(calls') >= 4

C24_CommitTogether ==
    [][/\ last'.raised => (posts' = posts /\ comments' = comments)
       /\ (~last'.raised /\ InSeq("comment.create", calls')) =>
              /\ comments'[Len(comments')].id = last'.comment_id
              /\ Len(comments') = Len(comments) + 1
       /\ (~last'.raised /\ InSeq("blog_post.create", calls')) =>
              /\ last'.post_id \in DOMAIN posts'
              /\ last'.post_id \notin DOMAIN posts
       /\ (~last'.raised /\ InSeq("blog_post.delete", calls')) =>
              /\ last'.post_id \notin DOMAIN posts'
              /\ OfPost(comments', last'.post_id) = 0
       /\ Len(comments') > Len(comments) =>
              /\ InSeq("blog_post.update", calls')
              /\ posts'[last'.post_id].updated_at = now']_vars

\* C24's case: a create_comment request whose post update raised after the
\* comment was flushed has ended, and the comment is not in the table.
C24_Witness ==
    /\ last.op = "POST /api/posts/{post_id}/comments"
    /\ last.out = "500"
    /\ calls = <<"blog_post.get_by_id", "comment.exists", "comment.create",
                 "blog_post.update">>
    /\ ~CommentRepo_exists(comments, last.comment_id)
    /\ last.post_id \in DOMAIN posts

\* the punctuation set of the rule: !@#$%^&*()_+-=[]{}|;:,.<>?
Punctuation ==
    {"!", "@", "#", "$", "%", "^", "&", "*", "(", ")", "_", "+", "-", "=",
     "[", "]", "{", "}", "|", ";", ":", ",", ".", "<", ">", "?"}

Has(password, class) == \E i \in 1..Len(password) : password[i] \in class

Strong(password) ==
    /\ Len(password) >= 8
    /\ Has(password, UpperChars)
    /\ Has(password, LowerChars)
    /\ Has(password, DigitChars)
    /\ Has(password, Punctuation)

\* C25: register, change_password and confirm_password_reset reject a
\* password for its strength if and only if it is shorter than 8 or lacks an
\* uppercase letter, a lowercase letter, a digit or a character of
\* !@#$%^&*()_+-=[]{}|;:,.<>? ; the three accept the same passwords.
C25_StrengthRule ==
    /\ last.op = "register_user" =>
            (last.out = "ValueError" <=> ~Strong(last.c))
    /\ last.op = "change_password" =>
            \/ last.out \in {"UserNotFoundError",
                             "ValueError: Current password is incorrect"}
            \/ (last.out = "ValueError: strength" <=> ~Strong(last.b))
    /\ last.op = "confirm_password_reset" =>
            (last.out = "True" <=> Strong(last.b))

\* C25's case: a password of seven characters with all four classes has been
\* refused by confirm_password_reset, by a user whose stored password has
\* exactly eight.
C25_Witness ==
    /\ last.op = "confirm_password_reset"
    /\ last.out = InvalidResetToken
    /\ last.b = <<"A", "b", "c", "d", "e", "1", "!">>
    /\ \E i \in DOMAIN users :
          users[i].password_hash = hash_password(<<"A", "b", "c", "d", "e", "f", "1", "?">>)


\* C26: get_post_with_comments(p) returns exactly the stored comments of p
\* whose approval flag is true, newest first, and the comment_count that
\* list_posts_summary reports for p is the number of those comments
ApprovedOf(C, id) ==
    {i \in 1..Len(C) : C[i].blog_post_id = id /\ C[i].is_approved}

C26_ApprovedNewestFirst ==
    /\ (last.op = "get_blog_post_with_comments" /\ ~last.raised) =>
          /\ Len(last.comments) = Cardinality(ApprovedOf(comments, last.post_id))
          /\ \A i \in ApprovedOf(comments, last.post_id) :
                \E j \in 1..Len(last.comments) : last.comments[j] = comments[i]
          /\ \A j \in 1..Len(last.comments) :
                \E i \in ApprovedOf(comments, last.post_id) :
                    last.comments[j] = comments[i]
          /\ \A i, j \in 1..Len(last.comments) :
                i < j => last.comments[i].created_at >= last.comments[j].created_at
    /\ last.op = "get_blog_posts_summary" =>
          \A i \in 1..Len(last.summaries) :
              last.summaries[i].comment_count =
                  Cardinality(ApprovedOf(comments, last.summaries[i].id))

\* the same with at most a page of approved comments on the post read
C26_WithinPage ==
    (last.op = "get_blog_post_with_comments" /\ ~last.raised
     /\ Cardinality(ApprovedOf(comments, last.post_id)) > DefaultLimit)
        \/ C26_ApprovedNewestFirst


\* C28: update_post with an invalid provided field fails with a validation
\* failure and leaves the stored post as it was, also when a valid title was
\* already applied to the loaded entity; on a missing id it fails with
\* PostNotFound
InvalidField(title, content) ==
    \/ title # NoneVal /\ ~BlogPost_validate_title([NoPost EXCEPT !.title = title])
    \/ content # NoneVal
         /\ ~BlogPost_validate_content([NoPost EXCEPT !.content = content])

C28_InvalidUpdatePersistsNothing ==
    [][last'.op = "update_blog_post" =>
          /\ last'.post_id \notin DOMAIN posts =>
                last'.out = "BlogPostNotFoundError" /\ posts' = posts
          /\ (/\ last'.post_id \in DOMAIN posts
              /\ InvalidField(last'.text[1], last'.text[2])) =>
                /\ last'.out = "ValueError"
                /\ posts' = posts
                /\ comments' = comments]_vars

\* a valid new title with a blank content was refused, after the clock had
\* advanced, on a post whose stored title is another
C28_Witness ==
    /\ last.op = "update_blog_post"
    /\ last.out = "ValueError"
    /\ last.text = <<<<"Y", "o">>, <<" ">>>>
    /\ last.post_id \in DOMAIN posts
    /\ posts[last.post_id].title # <<"Y", "o">>
    /\ posts[last.post_id].updated_at < now


\* C29: when create_comment and delete_post on the same post have both
\* ended, however their repository calls interleaved, every stored comment
\* names a stored post
C29_NoOrphanAfterRace ==
    (ent.cc.pc = "done" /\ ent.dp.pc = "done") =>
        \A i \in 1..Len(comments) : comments[i].blog_post_id \in DOMAIN posts

\* both ended well, and the new comment was committed after the delete of the
\* post's comments and before the delete of the post, which took it along
C29_Witness ==
    /\ ent.cc.pc = "done" /\ ent.dp.pc = "done"
    /\ ent.cc.out = "ok" /\ ent.dp.out = "True"
    /\ ent.dp.cascaded = 1
    /\ RacePost \notin DOMAIN posts

\* the create_comment failed on the foreign key: the post was deleted after
\* the use case had found it
C29_Refused ==
    /\ ent.cc.pc = "done" /\ ent.dp.pc = "done"
    /\ ent.cc.out = "CommentRepositoryError" /\ ent.dp.out = "True"


\* C30: no two stored users have the same stored username or the same stored
\* email, and a registration that succeeds stores the trimmed username and
\* the trimmed, lowercased email; inputs that differ from a stored value by
\* blanks or letter case are among the registrations tried
C30_UniqueStoredIdentity ==
    /\ [](\A i, j \in DOMAIN users :
            i # j => /\ users[i].username # users[j].username
                     /\ users[i].email # users[j].email)
    /\ [][(last'.op = "register_user" /\ last'.out = "ok") =>
             /\ last'.user_id \in DOMAIN users' \ DOMAIN users
             /\ users'[last'.user_id].username = Strip(last'.a)
             /\ users'[last'.user_id].email = ToLower(Strip(last'.b))]_vars

\* bob is stored under another id, and a registration of " bob " with a fresh
\* email passed the use case's own lookups and was refused by the repository
C30_Witness ==
    /\ last.op = "register_user"
    /\ last.a = BobPadded
    /\ last.out = "DuplicateUserError.username"
    /\ InSeq("user.create", calls)
    /\ \E i \in DOMAIN users :
          users[i].username = Bob /\ users[i].email # ToLower(Strip(last.b))

====
